---- MODULE Spec2Model ----
(***************************************************************************)
(* A model of the gen_ai package: the error model (gen_ai/errors.py), the  *)
(* OpenAI-compatible completion and chat calls (gen_ai/openai/             *)
(* invoke_model.py), the vision convenience call (vision_api.py), the      *)
(* opening of a stream (stream_model.py) and the batch executor            *)
(* (batch_api.py).                                                         *)
(*                                                                         *)
(* Python's None is the empty set and a present value x is {x}, so that    *)
(* "x is None" reads x = None and a field can hold either.                 *)
(***************************************************************************)
EXTENDS Integers, Sequences, FiniteSets, TLC

\* ------------------------------------------------------------------ bounds
MaxQueries == 3
MaxWorkers == 2
MaxImages == 2
MaxLines == 3

\* ----------------------------------------------------------------- helpers
None == {}
Some(x) == {x}
Value(opt) == CHOOSE x \in opt : TRUE
Range(s) == {s[k] : k \in DOMAIN s}

\* The endpoint the caller passes, and the two URLs built from it.
endpoint == "http://host/v1"
completions_endpoint == endpoint \o "/completions"
chat_endpoint == endpoint \o "/chat/completions"

\* ------------------------------------------------------------- error model
ERROR_CODES ==
    (400 :> "Bad Request - The request was malformed or contains invalid parameters")
 @@ (401 :> "Unauthorized - Authentication failed, check your API key")
 @@ (403 :> "Forbidden - You don't have permission to access this resource")
 @@ (404 :> "Not Found - The requested endpoint does not exist")
 @@ (429 :> "Too Many Requests - Rate limit exceeded, try again later")
 @@ (500 :> "Internal Server Error - Server error, try again later")
 @@ (502 :> "Bad Gateway - Gateway error, try again later")
 @@ (503 :> "Service Unavailable - Server temporarily unavailable, try again later")
 @@ (504 :> "Gateway Timeout - Request timed out, try again later")

\* Python's truth value of an Optional[int]: None and 0 are false.
StatusTruthy(status_code) == status_code # None /\ Value(status_code) # 0

\* A variant that never looks into ERROR_CODES.
get_error_type_generic(status_code) ==
    IF ~StatusTruthy(status_code) THEN "Unknown error"
    ELSE "HTTP Error " \o ToString(Value(status_code))

get_error_type(status_code) ==
    IF ~StatusTruthy(status_code) THEN "Unknown error"
    ELSE IF Value(status_code) \in DOMAIN ERROR_CODES
         THEN ERROR_CODES[Value(status_code)]
         ELSE "HTTP Error " \o ToString(Value(status_code))

\* A variant without the branch for the codes from 500 on.
get_suggestion_listed_only(status_code) ==
    IF ~StatusTruthy(status_code)
    THEN "Check your network connection and API endpoint URL"
    ELSE LET c == Value(status_code) IN
         IF c = 400 THEN "Check the request parameters and payload format"
         ELSE IF c \in {401, 403} THEN "Verify your API key and permissions"
         ELSE IF c = 404 THEN "Verify the API endpoint URL"
         ELSE IF c = 429
              THEN "Wait before sending more requests or implement rate limiting"
         ELSE ""

get_suggestion(status_code) ==
    IF ~StatusTruthy(status_code)
    THEN "Check your network connection and API endpoint URL"
    ELSE LET c == Value(status_code) IN
         IF c = 400 THEN "Check the request parameters and payload format"
         ELSE IF c \in {401, 403} THEN "Verify your API key and permissions"
         ELSE IF c = 404 THEN "Verify the API endpoint URL"
         ELSE IF c = 429
              THEN "Wait before sending more requests or implement rate limiting"
         ELSE IF c >= 500 THEN "Try again later or contact the API provider"
         ELSE ""

\* The text of the exception, kept as the sequence of the segments that
\* __init__ concatenates.
error_msg(url, status_code, message, method) ==
    <<"API ", method, " request to '", url, "' failed">>
    \o (IF StatusTruthy(status_code)
        THEN <<" with status code ", ToString(Value(status_code)), " (",
               get_error_type(status_code), ")">>
        ELSE <<>>)
    \o (IF message # "" THEN <<": ", message>> ELSE <<>>)
    \o (IF get_suggestion(status_code) # ""
        THEN <<". ", get_suggestion(status_code)>> ELSE <<>>)

\* A variant that takes a missing status code for a 500.
APIError_init_defaults_to_500(url, status_code, message, method) ==
    LET sc == IF status_code = None THEN Some(500) ELSE status_code IN
    [class       |-> "APIError",
     url         |-> url,
     status_code |-> sc,
     message     |-> message,
     method      |-> method,
     error_type  |-> get_error_type(sc),
     suggestion  |-> get_suggestion(sc),
     str         |-> error_msg(url, sc, message, method)]

\* APIError.__init__ with all four arguments.
APIError_init(url, status_code, message, method) ==
    [class       |-> "APIError",
     url         |-> url,
     status_code |-> status_code,
     message     |-> message,
     method      |-> method,
     error_type  |-> get_error_type(status_code),
     suggestion  |-> get_suggestion(status_code),
     str         |-> error_msg(url, status_code, message, method)]

\* The constructor as the callers use it: method keeps its default.
APIError(url, status_code, message) == APIError_init(url, status_code, message, "POST")

get_details(e) ==
    [url         |-> e.url,
     method      |-> e.method,
     status_code |-> e.status_code,
     error_type  |-> e.error_type,
     message     |-> e.message,
     suggestion  |-> e.suggestion]

\* ------------------------------------------------------------ the transport
\* requests.Response: status code, error text and parsed JSON body.  A JSON
\* object is a record (a missing key is a missing field); the value of
\* "choices" is tagged, [t |-> "list", v |-> <<...>>] or [t |-> "null"].
Reply(prompt) == "re:" \o prompt

OkBody(prompt) == [choices |-> [t |-> "list", v |-> <<[text |-> Reply(prompt)]>>]]

CompletionBodies(prompt) ==
    { OkBody(prompt),
      [id |-> "x"],                                        \* no "choices"
      [choices |-> [t |-> "list", v |-> <<>>]],            \* empty "choices"
      [choices |-> [t |-> "list", v |-> <<[index |-> 0]>>]], \* no "text"
      [choices |-> [t |-> "null"]] }                       \* "choices": null

ErrorStatuses == {400, 401, 403, 404, 418, 429, 500, 502, 503, 504}

Response(status_code, text, json) ==
    [status_code |-> status_code, text |-> text, json |-> json]

\* Response.__bool__ is Response.ok: false exactly when raise_for_status
\* would raise, i.e. for a status in 400..599.
ResponseOk(r) == ~(400 <= r.status_code /\ r.status_code < 600)

\* What requests.post can do with a payload: hand back a response, or raise
\* a RequestException that carries no response (connection failure,
\* timeout) or the last response of a redirect chain.
Returned(r) == [raised |-> FALSE, str |-> "", response |-> Some(r)]
Raised(str, response) == [raised |-> TRUE, str |-> str, response |-> response]

NetworkFailures ==
    { Raised("ConnectionError", None),
      Raised("ReadTimeout", None),
      Raised("TooManyRedirects", Some(Response(302, "moved", [id |-> "x"]))) }

CompletionPosts(payload) ==
    { Returned(Response(200, "", b)) : b \in CompletionBodies(payload.prompt) }
    \cup { Returned(Response(s, "denied", [id |-> "x"])) : s \in ErrorStatuses }
    \cup NetworkFailures

\* An exception in flight: its class, str(e) and, for a RequestException,
\* the response attribute.
Exc(class, str, response) == [class |-> class, str |-> str, response |-> response]
NoExc == Exc("", "", None)

\* response.raise_for_status()
raise_for_status(r) ==
    IF ResponseOk(r) THEN NoExc
    ELSE Exc("RequestException", "HTTPError " \o ToString(r.status_code), Some(r))

\* response.json()["choices"][0][key], as [exc, value]
Unwrap(json, key) ==
    IF "choices" \notin DOMAIN json
    THEN [exc |-> Exc("KeyError", "'choices'", None), value |-> None]
    ELSE IF json.choices.t # "list"
    THEN [exc |-> Exc("TypeError", "'NoneType' object is not subscriptable", None),
          value |-> None]
    ELSE IF Len(json.choices.v) = 0
    THEN [exc |-> Exc("IndexError", "list index out of range", None), value |-> None]
    ELSE IF key \notin DOMAIN json.choices.v[1]
    THEN [exc |-> Exc("KeyError", "'" \o key \o "'", None), value |-> None]
    ELSE [exc |-> NoExc, value |-> Some(json.choices.v[1][key])]

\* -------------------------------------------------------- run_completions
\* **kwargs: the extra keyword arguments of a call, a record of the keys
\* the caller passed.
NoKwargs == [k \in {} |-> 0]

KwargSets ==
    { a @@ b @@ c @@ d :
        a \in {NoKwargs, [max_tokens |-> 16]},
        b \in {NoKwargs, [temperature |-> 1]},
        c \in {NoKwargs, [n |-> 2]},
        d \in {NoKwargs, [stream |-> FALSE], [stream |-> TRUE]} }

\* A variant in which a key the payload already has keeps its value.
update_keeps_defaults(payload, kwargs) == payload @@ kwargs

\* payload.update(kwargs): the keys of kwargs replace or extend the payload's.
update(payload, kwargs) == kwargs @@ payload

CompletionPayload(query) ==
    [model |-> "m", prompt |-> query, max_tokens |-> 256, temperature |-> 0, n |-> 1]

\* A variant that takes the body as the result before checking the status.
CompletionsTryKeepsBody(post) ==
    IF post.raised
    THEN [exc |-> Exc("RequestException", post.str, post.response), value |-> None]
    ELSE LET r == Value(post.response) IN
         IF raise_for_status(r) # NoExc
         THEN [exc |-> raise_for_status(r), value |-> Some(r.text)]
         ELSE Unwrap(r.json, "text")

\* The try block: post, raise_for_status, unwrap.
CompletionsTry(post) ==
    IF post.raised
    THEN [exc |-> Exc("RequestException", post.str, post.response), value |-> None]
    ELSE LET r == Value(post.response) IN
         IF raise_for_status(r) # NoExc
         THEN [exc |-> raise_for_status(r), value |-> None]
         ELSE Unwrap(r.json, "text")

\* "hasattr(e, 'response') and e.response": the response must be truthy.
HasResponse(e) == e.response # None /\ ResponseOk(Value(e.response))

\* A variant that reports a body of the wrong shape as an error without a
\* status code.
HandleExceptionShapeAsNoStatus(e, url) ==
    IF e = NoExc THEN None
    ELSE IF e.class = "RequestException"
    THEN IF HasResponse(e)
         THEN Some(get_details(APIError(url, Some(Value(e.response).status_code),
                                        Value(e.response).text)))
         ELSE Some(get_details(APIError(url, None, e.str)))
    ELSE IF e.class \in {"KeyError", "IndexError"}
    THEN Some(get_details(APIError(url, None, e.str)))
    ELSE Some([url |-> url, method |-> "POST",
               error_type |-> "Unexpected error",
               message |-> e.str,
               suggestion |-> "Check API documentation and request format"])

\* The three except clauses, giving error_details.
HandleException(e, url) ==
    IF e = NoExc THEN None
    ELSE IF e.class = "RequestException"
    THEN IF HasResponse(e)
         THEN Some(get_details(APIError(url, Some(Value(e.response).status_code),
                                        Value(e.response).text)))
         ELSE Some(get_details(APIError(url, None, e.str)))
    ELSE IF e.class \in {"KeyError", "IndexError"}
    THEN Some([url |-> url, method |-> "POST",
               error_type |-> "Response parsing error",
               message |-> e.str,
               suggestion |-> "Check if the API response structure has changed"])
    ELSE Some([url |-> url, method |-> "POST",
               error_type |-> "Unexpected error",
               message |-> e.str,
               suggestion |-> "Check API documentation and request format"])

\* What a call hands to its caller: a returned value or a raised exception.
ReturnPair(result, error) ==
    [raised |-> FALSE, pair |-> TRUE, result |-> result, error |-> error, exc |-> NoExc]
ReturnOne(result) ==
    [raised |-> FALSE, pair |-> FALSE, result |-> result, error |-> None, exc |-> NoExc]
Raise(e) ==
    [raised |-> TRUE, pair |-> FALSE, result |-> None, error |-> None, exc |-> e]

\* A variant that raises the captured error when return_error is false.
run_completions_raising(query, return_error_, post) ==
    LET t == CompletionsTry(post)
        error_details == HandleException(t.exc, completions_endpoint)
    IN IF return_error_ THEN ReturnPair(t.value, error_details)
       ELSE IF error_details # None
       THEN Raise(Exc("APIError", Value(error_details).message, None))
       ELSE ReturnOne(t.value)

run_completions(query, return_error, post) ==
    LET t == CompletionsTry(post)
        result == t.value
        error_details == HandleException(t.exc, completions_endpoint)
    IN IF return_error THEN ReturnPair(result, error_details) ELSE ReturnOne(result)

\* ------------------------------------------------- images and messages
\* The files the calls can name: a readable image, a path that does not
\* exist, a directory, and a file that exists but cannot be read.
FS == [p \in {"a.jpg", "missing.jpg", "photos", "locked.jpg"} |->
         CASE p = "a.jpg" -> "file"
           [] p = "missing.jpg" -> "absent"
           [] p = "photos" -> "directory"
           [] p = "locked.jpg" -> "unreadable"]

Exists(p) == FS[p] # "absent"
\* A variant that asks for a file that can be read.
IsReadableFile(p) == FS[p] = "file"

IsFile(p) == FS[p] \in {"file", "unreadable"}

RECURSIVE Join(_)
Join(paths) ==
    IF paths = <<>> THEN ""
    ELSE IF Len(paths) = 1 THEN paths[1]
    ELSE paths[1] \o ", " \o Join(Tail(paths))

\* A variant that stops at the first path that is not a file.
validate_image_paths_first_only(image_paths) ==
    IF image_paths = <<>> THEN [exc |-> NoExc, value |-> Some(<<>>)]
    ELSE LET missing_images ==
                 SelectSeq(image_paths, LAMBDA p : ~Exists(p) \/ ~IsFile(p))
         IN IF missing_images # <<>>
            THEN [exc |-> Exc("FileNotFoundError",
                              "The following image files were not found: "
                                  \o missing_images[1], None),
                  value |-> None]
            ELSE [exc |-> NoExc, value |-> Some(image_paths)]

\* validate_image_paths: [exc, value]
validate_image_paths(image_paths) ==
    IF image_paths = <<>> THEN [exc |-> NoExc, value |-> Some(<<>>)]
    ELSE LET missing_images ==
                 SelectSeq(image_paths, LAMBDA p : ~Exists(p) \/ ~IsFile(p))
         IN IF missing_images # <<>>
            THEN [exc |-> Exc("FileNotFoundError",
                              "The following image files were not found: "
                                  \o Join(missing_images), None),
                  value |-> None]
            ELSE [exc |-> NoExc, value |-> Some(image_paths)]

\* encode_image: [exc, value].  Any failure of open/read becomes ValueError.
encode_image(image_path) ==
    IF FS[image_path] = "file"
    THEN [exc |-> NoExc, value |-> Some("b64:" \o image_path)]
    ELSE [exc |-> Exc("ValueError", "Failed to encode image at " \o image_path, None),
          value |-> None]

\* A message is [role, content]; content is tagged "str", "list" (of
\* content blocks) or "other" (any other Python value).
Str(v) == [t |-> "str", v |-> v]
List(v) == [t |-> "list", v |-> v]
Other == [t |-> "other", v |-> <<>>]
Msg(role, content) == [role |-> role, content |-> content]
TextBlock(text) == [type |-> "text", text |-> text, url |-> ""]
ImageBlock(b64) == [type |-> "image_url", text |-> "",
                    url |-> "data:image/jpeg;base64," \o b64]

\* A variant that scans from the start and stops at the first user message.
FirstUserIdx(messages_copy) ==
    LET users == {k \in DOMAIN messages_copy : messages_copy[k].role = "user"}
    IN IF users = {} THEN None
       ELSE Some(CHOOSE k \in users : \A j \in users : k <= j)

\* The last index whose role is user, scanning from the end; None if none.
LastUserIdx(messages_copy) ==
    LET users == {k \in DOMAIN messages_copy : messages_copy[k].role = "user"}
    IN IF users = {} THEN None
       ELSE Some(CHOOSE k \in users : \A j \in users : j <= k)

\* The encoding loop: the first image that cannot be encoded raises.
FirstEncodeFailure(image_paths) ==
    LET bad == {k \in DOMAIN image_paths : encode_image(image_paths[k]).exc # NoExc}
    IN IF bad = {} THEN NoExc
       ELSE encode_image(image_paths[CHOOSE k \in bad : \A j \in bad : k <= j]).exc

\* The images appended before the loop ends or an encoding raises.
EncodedCount(image_paths) ==
    LET bad == {k \in DOMAIN image_paths : encode_image(image_paths[k]).exc # NoExc}
    IN IF bad = {} THEN Len(image_paths)
       ELSE (CHOOSE k \in bad : \A j \in bad : k <= j) - 1

\* A variant that replaces a string content by an empty text block.
InjectImagesDroppingText(messages, image_paths) ==
    IF image_paths = <<>>
    THEN [exc |-> NoExc, value |-> Some(messages), copy |-> messages]
    ELSE
    LET found == LastUserIdx(messages)
        with_user == IF found = None
                     THEN Append(messages, Msg("user", List(<<TextBlock("")>>)))
                     ELSE messages
        last_user_idx == IF found = None THEN Len(with_user) ELSE Value(found)
        content == with_user[last_user_idx].content
        as_list == IF content.t # "list" THEN <<TextBlock("")>> ELSE content.v
        images == [k \in 1..EncodedCount(image_paths) |->
                     ImageBlock(Value(encode_image(image_paths[k]).value))]
        copy == [with_user EXCEPT ![last_user_idx].content = List(as_list \o images)]
    IN IF FirstEncodeFailure(image_paths) # NoExc
       THEN [exc |-> FirstEncodeFailure(image_paths), value |-> None, copy |-> copy]
       ELSE [exc |-> NoExc, value |-> Some(copy), copy |-> copy]

\* "Add images to the last user message if provided": [exc, value, copy],
\* the value being messages_copy as it goes into the payload and copy being
\* messages_copy as the block leaves it, also when an encoding raised.
InjectImages(messages, image_paths) ==
    IF image_paths = <<>>
    THEN [exc |-> NoExc, value |-> Some(messages), copy |-> messages]
    ELSE
    LET found == LastUserIdx(messages)
        with_user == IF found = None
                     THEN Append(messages, Msg("user", List(<<TextBlock("")>>)))
                     ELSE messages
        last_user_idx == IF found = None THEN Len(with_user) ELSE Value(found)
        content == with_user[last_user_idx].content
        as_list == IF content.t = "str" THEN <<TextBlock(content.v)>>
                   ELSE IF content.t # "list" THEN <<TextBlock("")>>
                   ELSE content.v
        images == [k \in 1..EncodedCount(image_paths) |->
                     ImageBlock(Value(encode_image(image_paths[k]).value))]
        copy == [with_user EXCEPT ![last_user_idx].content = List(as_list \o images)]
    IN IF FirstEncodeFailure(image_paths) # NoExc
       THEN [exc |-> FirstEncodeFailure(image_paths), value |-> None, copy |-> copy]
       ELSE [exc |-> NoExc, value |-> Some(copy), copy |-> copy]

\* What the caller's list looks like once the function has worked on
\* messages_copy.  `msg.copy()` copies each message dict but not its content:
\* a list content is one object that the caller's message and its copy both
\* refer to, so what was appended to it is seen through both; a content the
\* function replaced (str or other) was rebound in the copy only, and a
\* message appended to messages_copy is not in the caller's list.
CallerView(messages, copy) ==
    [k \in DOMAIN messages |->
        IF messages[k].content.t = "list"
        THEN [messages[k] EXCEPT !.content = copy[k].content]
        ELSE messages[k]]

\* ------------------------------------------ format_messages_for_bedrock
\* Bedrock's content blocks.
BedrockText(text) == [text |-> text]
BedrockImage(image_bytes) ==
    [image |-> [format |-> "jpeg", source |-> [bytes |-> image_bytes]]]

\* open(image_path, "rb") and read(): [exc, value].  Nothing here catches
\* the exception of open.
read_image(image_path) ==
    CASE FS[image_path] = "file" ->
           [exc |-> NoExc, value |-> Some("bytes:" \o image_path)]
      [] FS[image_path] = "absent" ->
           [exc |-> Exc("FileNotFoundError", "No such file or directory: " \o image_path,
                        None), value |-> None]
      [] FS[image_path] = "directory" ->
           [exc |-> Exc("IsADirectoryError", "Is a directory: " \o image_path, None),
            value |-> None]
      [] FS[image_path] = "unreadable" ->
           [exc |-> Exc("PermissionError", "Permission denied: " \o image_path, None),
            value |-> None]

\* The indices of the paths that cannot be read.
Unreadable(image_paths) ==
    {k \in DOMAIN image_paths : read_image(image_paths[k]).exc # NoExc}

\* The images appended before the loop ends or an open raises.
ReadCount(image_paths) ==
    IF Unreadable(image_paths) = {} THEN Len(image_paths)
    ELSE (CHOOSE k \in Unreadable(image_paths) :
             \A j \in Unreadable(image_paths) : k <= j) - 1

\* format_messages_for_bedrock: [exc, value, copy], the value being the
\* list it returns and copy being messages_copy as the function leaves it,
\* also when it raises.
format_messages_for_bedrock(messages, image_paths) ==
    IF image_paths = <<>>
    THEN [exc |-> NoExc, value |-> Some(messages), copy |-> messages]
    ELSE
    LET found == LastUserIdx(messages)
        with_user == IF found = None
                     THEN Append(messages, Msg("user", List(<<BedrockText("")>>)))
                     ELSE messages
        last_user_idx == IF found = None THEN Len(with_user) ELSE Value(found)
        content == with_user[last_user_idx].content
        as_list == IF content.t = "str" THEN <<BedrockText(content.v)>>
                   ELSE IF content.t # "list" THEN <<BedrockText("")>>
                   ELSE content.v
        images == [k \in 1..ReadCount(image_paths) |->
                     BedrockImage(Value(read_image(image_paths[k]).value))]
        copy == [with_user EXCEPT ![last_user_idx].content = List(as_list \o images)]
    IN IF ReadCount(image_paths) < Len(image_paths)
       THEN [exc |-> read_image(image_paths[ReadCount(image_paths) + 1]).exc,
             value |-> None, copy |-> copy]
       ELSE [exc |-> NoExc, value |-> Some(copy), copy |-> copy]

\* --------------------------------------------------- run_chat_completions
ChatReply == "re:chat"

ChatBodies ==
    { [choices |-> [t |-> "list", v |-> <<[message |-> [content |-> ChatReply]]>>]],
      [id |-> "x"],
      [choices |-> [t |-> "list", v |-> <<>>]],
      [choices |-> [t |-> "list", v |-> <<[index |-> 0]>>]],          \* no "message"
      [choices |-> [t |-> "list", v |-> <<[message |-> [role |-> "assistant"]]>>]],
      [choices |-> [t |-> "null"]] }

ChatPosts ==
    { Returned(Response(200, "", b)) : b \in ChatBodies }
    \cup { Returned(Response(s, "denied", [id |-> "x"])) : s \in ErrorStatuses }
    \cup NetworkFailures

ChatPayload(messages_copy) ==
    [model |-> "m", messages |-> messages_copy, max_tokens |-> 256,
     temperature |-> 0, n |-> 1]

\* response.json()["choices"][0]["message"]["content"], as [exc, value]
UnwrapChat(json) ==
    LET m == Unwrap(json, "message") IN
    IF m.exc # NoExc THEN m
    ELSE IF "content" \notin DOMAIN Value(m.value)
    THEN [exc |-> Exc("KeyError", "'content'", None), value |-> None]
    ELSE [exc |-> NoExc, value |-> Some(Value(m.value).content)]

\* The try block.  post is looked at only when the payload could be built.
ChatTry(messages, image_paths, post) ==
    LET inj == InjectImages(messages, image_paths) IN
    IF inj.exc # NoExc THEN [exc |-> inj.exc, value |-> None]
    ELSE IF post.raised
    THEN [exc |-> Exc("RequestException", post.str, post.response), value |-> None]
    ELSE LET r == Value(post.response) IN
         IF raise_for_status(r) # NoExc
         THEN [exc |-> raise_for_status(r), value |-> None]
         ELSE UnwrapChat(r.json)

run_chat_completions(messages, return_error, image_paths, post) ==
    LET t == ChatTry(messages, image_paths, post)
        result == t.value
        error_details == HandleException(t.exc, chat_endpoint)
    IN IF return_error THEN ReturnPair(result, error_details) ELSE ReturnOne(result)

\* A variant whose path validation raises whatever return_error is.
vision_checks_always_raise(image_paths, api_type, return_error_) ==
    IF api_type # "chat"
    THEN Some(Raise(Exc("ValueError", "Invalid api_type", None)))
    ELSE IF validate_image_paths(image_paths).exc # NoExc
    THEN Some(Raise(validate_image_paths(image_paths).exc))
    ELSE None

\* ----------------------------------------------------- run_vision_request
\* The checks made before the chat call: None when they pass, else what
\* the call hands back at once.
vision_checks(image_paths, api_type, return_error) ==
    IF api_type # "chat"
    THEN IF return_error
         THEN Some(ReturnPair(None,
                  Some([error_type |-> "Invalid parameter",
                        message |-> "Invalid api_type: " \o api_type \o ". Must be 'chat'.",
                        suggestion |-> "Use 'chat' for api_type"])))
         ELSE Some(Raise(Exc("ValueError",
                             "Invalid api_type: " \o api_type \o ". Must be 'chat'.", None)))
    ELSE LET v == validate_image_paths(image_paths) IN
         IF v.exc # NoExc
         THEN IF return_error
              THEN Some(ReturnPair(None,
                       Some([error_type |-> "Image file not found",
                             message |-> v.exc.str,
                             suggestion |->
                               "Check that all image paths exist and are valid files"])))
              ELSE Some(Raise(v.exc))
         ELSE None

VisionMessages(prompt) == <<Msg("user", Str(prompt))>>

run_vision_request(prompt, image_paths, api_type, return_error, post) ==
    IF vision_checks(image_paths, api_type, return_error) # None
    THEN Value(vision_checks(image_paths, api_type, return_error))
    ELSE run_chat_completions(VisionMessages(prompt), return_error,
                              Value(validate_image_paths(image_paths).value), post)

\* ------------------------------------------------- the lines of a stream
\* A line of response.iter_lines(), after the "data: " prefix is cut off:
\* an empty line, the "[DONE]" marker, a JSON chunk, or text that is not
\* JSON.  "fault" stands for iter_lines raising (the connection broke or
\* the read timed out).
BlankLine == [kind |-> "blank"]
DoneLine == [kind |-> "done"]
NotJsonLine == [kind |-> "text"]
FaultLine == [kind |-> "fault"]
JsonLine(chunk) == [kind |-> "json", chunk |-> chunk]
Choices(choice) == [choices |-> [t |-> "list", v |-> <<choice>>]]

\* The chunks of a completion stream.
CompletionChunks ==
    { Choices([text |-> "t1"]), Choices([text |-> "t2"]),
      Choices([text |-> ""]),                     \* empty text
      Choices([index |-> 0]),                     \* no "text"
      [id |-> "x"],                               \* no "choices"
      [choices |-> [t |-> "list", v |-> <<>>]] }  \* empty "choices"

\* The chunks of a chat stream.
ChatChunks ==
    { Choices([delta |-> [content |-> Some("d1")]]),
      Choices([delta |-> [content |-> Some("")]]),
      Choices([delta |-> [content |-> None]]),                  \* "content": null
      Choices([delta |-> [role |-> "assistant"]]),              \* no "content"
      Choices([delta |-> [content |-> Some("d1")],
               message |-> [content |-> Some("m1")]]),
      Choices([delta |-> [role |-> "assistant"],
               message |-> [content |-> Some("m1")]]),
      Choices([message |-> [content |-> Some("m1")]]),
      Choices([message |-> [role |-> "assistant"]]),
      [id |-> "x"] }

CompletionLines ==
    {BlankLine, DoneLine, NotJsonLine, FaultLine} \cup { JsonLine(c) : c \in CompletionChunks }
ChatLines ==
    {BlankLine, DoneLine, NotJsonLine, FaultLine} \cup { JsonLine(c) : c \in ChatChunks }

\* dict.get(key, ""): the value, "" when the key is missing; None stays None.
get(d, key) == IF key \in DOMAIN d THEN d[key] ELSE Some("")

\* `if delta:` - a str that is not empty.
Truthy(v) == v # None /\ Value(v) # ""

\* chunk["choices"][0].get("text", ""), None when the chunk is skipped.
completion_chunk_text(chunk) ==
    IF "choices" \notin DOMAIN chunk \/ Len(chunk.choices.v) = 0 THEN None
    ELSE IF "text" \in DOMAIN chunk.choices.v[1]
         THEN Some(chunk.choices.v[1].text) ELSE Some("")

\* A variant that looks at "message" before "delta".
chat_chunk_text_message_first(chunk) ==
    IF "choices" \notin DOMAIN chunk \/ Len(chunk.choices.v) = 0 THEN None
    ELSE LET choice == chunk.choices.v[1] IN
         IF "message" \in DOMAIN choice THEN get(choice.message, "content")
         ELSE IF "delta" \in DOMAIN choice THEN get(choice.delta, "content")
         ELSE Some("")

\* The content a chat chunk selects: the delta's when there is a delta,
\* else the message's; None when the chunk is skipped or the content is null.
chat_chunk_text(chunk) ==
    IF "choices" \notin DOMAIN chunk \/ Len(chunk.choices.v) = 0 THEN None
    ELSE LET choice == chunk.choices.v[1] IN
         IF "delta" \in DOMAIN choice THEN get(choice.delta, "content")
         ELSE IF "message" \in DOMAIN choice THEN get(choice.message, "content")
         ELSE Some("")

\* A variant that takes the "[DONE]" marker for one more line to skip.
read_line_past_done(fn, line) ==
    CASE line.kind \in {"blank", "done"} -> [k |-> "continue", text |-> ""]
      [] line.kind = "fault" -> [k |-> "raise", text |-> "Connection broken"]
      [] line.kind = "text" -> [k |-> "continue", text |-> ""]
      [] line.kind = "json" ->
           LET text == IF fn = "generate_response_stream"
                       THEN completion_chunk_text(line.chunk)
                       ELSE chat_chunk_text(line.chunk)
           IN IF Truthy(text) THEN [k |-> "yield", text |-> Value(text)]
              ELSE [k |-> "continue", text |-> ""]

\* One turn of `for line in response.iter_lines()`: the generator goes on
\* to the next line, yields a fragment, leaves the loop, or iter_lines
\* raises.
read_line(fn, line) ==
    CASE line.kind = "blank" -> [k |-> "continue", text |-> ""]
      [] line.kind = "done" -> [k |-> "break", text |-> ""]
      [] line.kind = "fault" -> [k |-> "raise", text |-> "Connection broken"]
      [] line.kind = "text" -> [k |-> "continue", text |-> ""]
      [] line.kind = "json" ->
           LET text == IF fn = "generate_response_stream"
                       THEN completion_chunk_text(line.chunk)
                       ELSE chat_chunk_text(line.chunk)
           IN IF Truthy(text) THEN [k |-> "yield", text |-> Value(text)]
              ELSE [k |-> "continue", text |-> ""]

\* -------------------------------------------------- opening of a stream
\* A variant that reports a failure without a response as a processing
\* error.
StreamExceptionNoResponseAsValueError(e, url) ==
    IF e.class = "RequestException" /\ HasResponse(e)
    THEN APIError(url, Some(Value(e.response).status_code), Value(e.response).text)
    ELSE Exc("ValueError", "Failed to process streaming response: " \o e.str, None)

\* The except clauses around the streaming request: the exception the
\* generator raises to its consumer.
StreamException(e, url) ==
    IF e.class = "RequestException"
    THEN IF HasResponse(e)
         THEN APIError(url, Some(Value(e.response).status_code), Value(e.response).text)
         ELSE APIError(url, None, e.str)
    ELSE Exc("ValueError", "Failed to process streaming response: " \o e.str, None)

\* The request and raise_for_status of a streaming call.
StreamOpenExc(post) ==
    IF post.raised THEN Exc("RequestException", post.str, post.response)
    ELSE raise_for_status(Value(post.response))

\* The payload of a streaming request: the defaults with "stream": True.
StreamPayload(payload) == [stream |-> TRUE] @@ payload

\* What generate_chat_response_streaming does before it sends anything:
\* validate, then inject; [exc, value, copy].
StreamChatPrepare(messages, image_paths) ==
    IF image_paths = <<>>
    THEN [exc |-> NoExc, value |-> Some(messages), copy |-> messages]
    ELSE IF validate_image_paths(image_paths).exc # NoExc
    THEN [exc |-> validate_image_paths(image_paths).exc, value |-> None,
          copy |-> messages]
    ELSE InjectImages(messages, image_paths)

\* ---------------------------------------------------------------- Bedrock
\* What client.converse and client.converse_stream can do: return a
\* response dict, raise a botocore ClientError (its response is the parsed
\* error dict), or raise an error that is no ClientError.
ClientError(message) ==
    [raised |-> TRUE, class |-> "ClientError",
     str |-> "An error occurred (" \o message \o ") when calling the operation",
     response |-> Some([Error |-> [Message |-> message]])]
ConnectError ==
    [raised |-> TRUE, class |-> "EndpointConnectionError",
     str |-> "Could not connect to the endpoint URL", response |-> None]
ConverseFailures == {ClientError("ThrottlingException"), ConnectError}

ConverseReply == "yo"
ConverseResponses ==
    { Returned(Response(200, "", [output |-> [message |-> [content |-> c]]])) :
        c \in {<<[text |-> ConverseReply]>>, <<>>} }

\* response["output"]["message"]["content"][0]["text"]: [exc, value].
UnwrapConverse(json) ==
    IF json.output.message.content = <<>>
    THEN [exc |-> Exc("IndexError", "list index out of range", None), value |-> None]
    ELSE [exc |-> NoExc, value |-> Some(json.output.message.content[1].text)]

\* The steps before the request, shared by both Bedrock functions:
\* validation when image_paths is given and not empty, then formatting;
\* [exc, value, copy].
BedrockPrepared(messages, image_paths) ==
    IF image_paths # <<>> /\ validate_image_paths(image_paths).exc # NoExc
    THEN [exc |-> validate_image_paths(image_paths).exc, value |-> None,
          copy |-> messages]
    ELSE format_messages_for_bedrock(messages, image_paths)

\* The except clause of generate_chat_response: the APIError it raises,
\* whose first positional argument (url) is the text.
BedrockException(e) ==
    IF e.class = "ClientError"
    THEN APIError("API request failed: " \o Value(e.response).Error.Message, None, "")
    ELSE APIError("Failed to process response: " \o e.str, None, "")

\* generate_chat_response as a function of what converse does; converse
\* is looked at only when the messages could be prepared.
generate_chat_response(messages, image_paths, converse) ==
    LET prep == BedrockPrepared(messages, image_paths) IN
    IF prep.exc # NoExc THEN Raise(BedrockException(prep.exc))
    ELSE IF converse.raised
    THEN Raise(BedrockException(Exc(converse.class, converse.str, converse.response)))
    ELSE LET u == UnwrapConverse(Value(converse.response).json) IN
         IF u.exc # NoExc THEN Raise(BedrockException(u.exc))
         ELSE ReturnOne(u.value)

\* The events of a converse_stream response: a text delta, an event of
\* another kind, a delta that carries no text, and a failure of the event
\* stream while it is iterated.
TextEvent(text) == [kind |-> "event", event |-> [contentBlockDelta |-> [delta |-> [text |-> text]]]]
StopEvent == [kind |-> "event", event |-> [messageStop |-> [stopReason |-> "end_turn"]]]
ToolEvent == [kind |-> "event", event |-> [contentBlockDelta |-> [delta |-> [toolUse |-> "{"]]]]
FaultEvent == [kind |-> "fault", text |-> "modelStreamErrorException"]
BedrockEvents == {TextEvent("b1"), TextEvent("b2"), StopEvent, ToolEvent, FaultEvent}

\* One turn of the reading loop of run_chat_completions_streaming with its
\* inner except clause: "yield" a text, "continue", or "return" (the
\* generator ends) when anything was raised.
read_event(ev) ==
    IF ev.kind = "fault"
    THEN [k |-> "return", text |-> ev.text]
    ELSE IF "contentBlockDelta" \notin DOMAIN ev.event
    THEN [k |-> "continue", text |-> ""]
    ELSE IF "text" \notin DOMAIN ev.event.contentBlockDelta.delta
    THEN [k |-> "return", text |-> "'text'"]
    ELSE [k |-> "yield", text |-> ev.event.contentBlockDelta.delta.text]

\* The outer except clauses of run_chat_completions_streaming, for an
\* exception raised before the events are read.  A ClientError's response
\* is a dict, which has no status_code: the handler itself raises.
BedrockStreamException(e) ==
    IF e.class = "ClientError"
    THEN Exc("AttributeError", "'dict' object has no attribute 'status_code'", None)
    ELSE Exc("ValueError", "Failed to process streaming response: " \o e.str, None)

\* ---------------------------------------------------------- create_client
\* An adapter object: its class and the SDK clients its constructor set up
\* (boto3.client twice, AzureOpenAI(...), genai.configure).
Adapter(class, sdk_clients) == [class |-> class, sdk_clients |-> sdk_clients]

UnexpectedKeyword(class) ==
    Exc("TypeError", class \o ".__init__() got an unexpected keyword argument", None)

\* The constructors as create_client calls them: [exc, value].  OpenAIClient
\* and BedrockClient take no **kwargs; the SDKs are taken to accept the
\* credentials they are given.
OpenAIClient_init(kwargs) ==
    IF kwargs # NoKwargs
    THEN [exc |-> UnexpectedKeyword("OpenAIClient"), value |-> None]
    ELSE [exc |-> NoExc, value |-> Some(Adapter("OpenAIClient", 0))]
BedrockClient_init(kwargs) ==
    IF kwargs # NoKwargs
    THEN [exc |-> UnexpectedKeyword("BedrockClient"), value |-> None]
    ELSE [exc |-> NoExc, value |-> Some(Adapter("BedrockClient", 2))]
AzureOpenAIClient_init(deployment, kwargs) ==
    [exc |-> NoExc, value |-> Some(Adapter("AzureOpenAIClient", 1))]
GeminiClient_init(kwargs) ==
    [exc |-> NoExc, value |-> Some(Adapter("GeminiClient", 1))]

\* create_client: [exc, value].  deployment is None or a string; `not
\* deployment` holds for None and for "".
create_client(provider, deployment, kwargs) ==
    CASE provider = "openai" -> OpenAIClient_init(kwargs)
      [] provider = "bedrock" -> BedrockClient_init(kwargs)
      [] provider = "azure" ->
           IF deployment = None \/ deployment = Some("")
           THEN [exc |-> Exc("ValueError", "deployment is required for Azure OpenAI", None),
                 value |-> None]
           ELSE AzureOpenAIClient_init(deployment, kwargs)
      [] provider = "gemini" -> GeminiClient_init(kwargs)
      [] OTHER -> [exc |-> Exc("ValueError", "Unknown provider: " \o provider, None),
                   value |-> None]

\* ================================================== run_completions_batch
VARIABLES
    queries,        \* the input list
    return_error,   \* the flag of the batch call
    concurrent,     \* the flag of the batch call
    max_concurrent, \* the pool size asked for
    pc,             \* where the calling thread is
    results,        \* the results list
    errors,         \* the errors list
    i,              \* loop variable of the submitting / sequential loop
    futures,        \* index -> state of the future submitted for it
    work_queue,     \* the executor's queue of work items not yet picked up
    num_threads,    \* worker threads the executor has started
    idle_sem,       \* the executor's idle semaphore
    yielded,        \* futures as_completed has handed to the loop body, in order
    running,        \* indices whose run_completions call is in flight
    started,        \* indices in the order their call started
    wire,           \* index -> prompts sent to the endpoint for it, in order
    pool_created,   \* a ThreadPoolExecutor was constructed
    retval          \* what run_completions_batch handed back

batch_vars == <<queries, return_error, concurrent, max_concurrent, pc, results,
                errors, i, futures, work_queue, num_threads, idle_sem, yielded,
                running, started, wire, pool_created, retval>>

\* The state of a single call of one of the other functions.
VARIABLES
    c_in,     \* the call: function and arguments
    c_pc,     \* where the call is
    c_posts,  \* transport calls made so far
    c_post,   \* what the transport did with the request, None before it
    c_out,    \* what the call handed to its caller, None while it runs
    c_messages, \* the caller's own message list, as it is now
    c_payload,  \* the payload handed to the transport, None before that
    c_pos,      \* lines (events) of the stream the generator has taken
    c_yielded,  \* the fragments the generator has yielded, in order
    c_clients   \* the adapters create_client has constructed, in order

call_vars == <<c_in, c_pc, c_posts, c_post, c_out, c_messages, c_payload,
               c_pos, c_yielded, c_clients>>

vars == <<batch_vars, call_vars>>

\* The input lists: n pairwise different prompts, n = 0..MaxQueries.
Prompt(k) == "p" \o ToString(k)

QueryLists == { [k \in 1..n |-> Prompt(k)] : n \in 0..MaxQueries }

\* The transports a batch is run against: a good answer, an HTTP error and
\* a timeout.
BatchPosts(payload) ==
    { Returned(Response(200, "", OkBody(payload.prompt))),
      Returned(Response(404, "denied", [id |-> "x"])),
      Raised("ReadTimeout", None) }

\* process_single_query(idx): what the task hands to its caller.  The call
\* of run_completions is made with return_error=True; an exception that
\* run_completions does not catch (one raised outside its try block or
\* inside one of its handlers) escapes the task.
process_single_query(idx, post) ==
    LET r == run_completions(queries[idx], TRUE, post)
    IN [raised |-> FALSE, exc |-> "", idx |-> idx, result |-> r.result, error |-> r.error]

TaskEscapes(idx) ==
    [raised |-> TRUE, exc |-> "MemoryError", idx |-> idx, result |-> None, error |-> None]

TaskOutcomes(idx) ==
    { process_single_query(idx, post) : post \in BatchPosts(CompletionPayload(queries[idx])) }
    \cup { TaskEscapes(idx) }

ProcessingError(e) ==
    [error_type |-> "Processing error", message |-> e,
     suggestion |-> "Check if the query is valid"]

\* A variant that fills the results list in the order the tasks come back.
StoreResultsInCompletionOrder(res, idx, out) ==
    IF out.raised THEN res ELSE [res EXCEPT ![Len(yielded) + 1] = out.result]

\* The body of both loops: the try / except around one task's outcome.
\* idx is the index the loop knows the task by (futures[future] or i).
StoreResults(res, idx, out) ==
    IF out.raised THEN res ELSE [res EXCEPT ![out.idx] = out.result]
\* A variant in which a task's exception marks the whole batch as failed.
StoreErrorsFailsBatch(err, idx, out) ==
    IF out.raised THEN [k \in DOMAIN err |-> Some(ProcessingError(out.exc))]
    ELSE [err EXCEPT ![out.idx] = out.error]

StoreErrors(err, idx, out) ==
    IF out.raised THEN [err EXCEPT ![idx] = Some(ProcessingError(out.exc))]
    ELSE [err EXCEPT ![out.idx] = out.error]

NoneList(n) == [k \in 1..n |-> None]

Unsubmitted == [state |-> "unsubmitted", outcome |-> None]

BatchInit ==
    /\ queries \in QueryLists
    /\ return_error \in BOOLEAN
    /\ concurrent \in BOOLEAN
    /\ max_concurrent \in -1..MaxWorkers
    /\ pc = "start"
    /\ results = <<>>
    /\ errors = <<>>
    /\ i = 0
    /\ futures = [k \in 1..Len(queries) |-> Unsubmitted]
    /\ work_queue = <<>>
    /\ num_threads = 0
    /\ idle_sem = 0
    /\ yielded = <<>>
    /\ running = {}
    /\ started = <<>>
    /\ wire = [k \in 1..Len(queries) |-> <<>>]
    /\ pool_created = FALSE
    /\ retval = None

BatchReturnValue ==
    IF return_error THEN [raised |-> FALSE, results |-> results, errors |-> Some(errors)]
    ELSE [raised |-> FALSE, results |-> results, errors |-> None]

\* A variant that forgets the pair form of the empty result.
ReturnEmptyBare ==
    /\ pc = "start"
    /\ queries = <<>>
    /\ pc' = "returned"
    /\ retval' = Some([raised |-> FALSE, results |-> <<>>, errors |-> None])
    /\ UNCHANGED call_vars
    /\ UNCHANGED <<queries, return_error, concurrent, max_concurrent, results,
                   errors, i, futures, work_queue, num_threads, idle_sem,
                   yielded, running, started, wire, pool_created>>

\* "if not queries": return [] or ([], []).
ReturnEmpty ==
    /\ pc = "start"
    /\ queries = <<>>
    /\ pc' = "returned"
    /\ retval' = Some(IF return_error
                      THEN [raised |-> FALSE, results |-> <<>>, errors |-> Some(<<>>)]
                      ELSE [raised |-> FALSE, results |-> <<>>, errors |-> None])
    /\ UNCHANGED call_vars
    /\ UNCHANGED <<queries, return_error, concurrent, max_concurrent, results,
                   errors, i, futures, work_queue, num_threads, idle_sem,
                   yielded, running, started, wire, pool_created>>

\* The else branch: the lists are initialised and the sequential loop begins.
StartSequential ==
    /\ pc = "start"
    /\ queries # <<>>
    /\ ~(concurrent /\ Len(queries) > 1)
    /\ results' = NoneList(Len(queries))
    /\ errors' = NoneList(Len(queries))
    /\ i' = 1
    /\ pc' = "seq"
    /\ UNCHANGED call_vars
    /\ UNCHANGED <<queries, return_error, concurrent, max_concurrent, futures,
                   work_queue, num_threads, idle_sem, yielded, running, started,
                   wire, pool_created, retval>>

\* The concurrent branch: ThreadPoolExecutor(max_workers=max_concurrent).
\* The constructor raises ValueError when max_workers <= 0, and nothing in
\* run_completions_batch catches it.
StartConcurrent ==
    /\ pc = "start"
    /\ queries # <<>>
    /\ concurrent /\ Len(queries) > 1
    /\ results' = NoneList(Len(queries))
    /\ errors' = NoneList(Len(queries))
    /\ IF max_concurrent <= 0
       THEN /\ pc' = "raised"
            /\ retval' = Some([raised |-> TRUE, results |-> <<>>, errors |-> None])
            /\ UNCHANGED <<i, pool_created>>
       ELSE /\ pc' = "submit"
            /\ i' = 1
            /\ pool_created' = TRUE
            /\ UNCHANGED retval
    /\ UNCHANGED call_vars
    /\ UNCHANGED <<queries, return_error, concurrent, max_concurrent, futures,
                   work_queue, num_threads, idle_sem, yielded, running, started,
                   wire>>

\* A variant that starts a thread for every work item.
SubmitUnbounded ==
    /\ pc = "submit"
    /\ futures' = [futures EXCEPT ![i] = [state |-> "pending", outcome |-> None]]
    /\ work_queue' = Append(work_queue, i)
    /\ num_threads' = num_threads + 1
    /\ UNCHANGED idle_sem
    /\ IF i = Len(queries)
       THEN pc' = "collect" /\ UNCHANGED i
       ELSE i' = i + 1 /\ UNCHANGED pc
    /\ UNCHANGED call_vars
    /\ UNCHANGED <<queries, return_error, concurrent, max_concurrent, results,
                   errors, yielded, running, started, wire, pool_created, retval>>

\* executor.submit(process_single_query, i): the work item is queued and
\* the executor starts a thread unless one is idle or max_workers exist.
Submit ==
    /\ pc = "submit"
    /\ futures' = [futures EXCEPT ![i] = [state |-> "pending", outcome |-> None]]
    /\ work_queue' = Append(work_queue, i)
    /\ IF idle_sem > 0
       THEN idle_sem' = idle_sem - 1 /\ UNCHANGED num_threads
       ELSE /\ num_threads' = IF num_threads < max_concurrent
                              THEN num_threads + 1 ELSE num_threads
            /\ UNCHANGED idle_sem
    /\ IF i = Len(queries)
       THEN pc' = "collect" /\ UNCHANGED i
       ELSE i' = i + 1 /\ UNCHANGED pc
    /\ UNCHANGED call_vars
    /\ UNCHANGED <<queries, return_error, concurrent, max_concurrent, results,
                   errors, yielded, running, started, wire, pool_created, retval>>

\* A worker thread that is not running a task takes the oldest work item
\* and enters process_single_query: the request goes out.
WorkerStart ==
    /\ work_queue # <<>>
    /\ Cardinality(running) < num_threads
    /\ LET idx == Head(work_queue) IN
         /\ work_queue' = Tail(work_queue)
         /\ futures' = [futures EXCEPT ![idx].state = "running"]
         /\ running' = running \cup {idx}
         /\ started' = Append(started, idx)
         /\ wire' = [wire EXCEPT ![idx] = Append(@, CompletionPayload(queries[idx]).prompt)]
    /\ UNCHANGED call_vars
    /\ UNCHANGED <<queries, return_error, concurrent, max_concurrent, pc, results,
                   errors, i, num_threads, idle_sem, yielded, pool_created, retval>>

\* The task ends: the future holds its return value or its exception and
\* the worker releases the idle semaphore.
\* A variant in which the worker thread stores its own outcome in the
\* shared lists.
WorkerFinishStores(idx, out) ==
    /\ pool_created
    /\ idx \in running
    /\ futures' = [futures EXCEPT ![idx] = [state |-> "finished", outcome |-> Some(out)]]
    /\ running' = running \ {idx}
    /\ idle_sem' = idle_sem + 1
    /\ results' = StoreResults(results, idx, out)
    /\ errors' = StoreErrors(errors, idx, out)
    /\ UNCHANGED call_vars
    /\ UNCHANGED <<queries, return_error, concurrent, max_concurrent, pc,
                   i, work_queue, num_threads, yielded, started, wire,
                   pool_created, retval>>

WorkerFinish(idx, out) ==
    /\ pool_created
    /\ idx \in running
    /\ futures' = [futures EXCEPT ![idx] = [state |-> "finished", outcome |-> Some(out)]]
    /\ running' = running \ {idx}
    /\ idle_sem' = idle_sem + 1
    /\ UNCHANGED call_vars
    /\ UNCHANGED <<queries, return_error, concurrent, max_concurrent, pc, results,
                   errors, i, work_queue, num_threads, yielded, started, wire,
                   pool_created, retval>>

\* One turn of "for future in as_completed(futures)": a finished future
\* not yet yielded is yielded and the loop body stores its outcome.
Collect(idx) ==
    /\ pc = "collect"
    /\ idx \notin Range(yielded)
    /\ futures[idx].state = "finished"
    /\ LET out == Value(futures[idx].outcome) IN
         /\ results' = StoreResults(results, idx, out)
         /\ errors' = StoreErrors(errors, idx, out)
    /\ yielded' = Append(yielded, idx)
    /\ UNCHANGED call_vars
    /\ UNCHANGED <<queries, return_error, concurrent, max_concurrent, pc, i,
                   futures, work_queue, num_threads, idle_sem, running, started,
                   wire, pool_created, retval>>

\* as_completed is exhausted, the with block shuts the pool down and the
\* function returns.
ReturnConcurrent ==
    /\ pc = "collect"
    /\ Range(yielded) = DOMAIN futures
    /\ pc' = "returned"
    /\ retval' = Some(BatchReturnValue)
    /\ UNCHANGED call_vars
    /\ UNCHANGED <<queries, return_error, concurrent, max_concurrent, results,
                   errors, i, futures, work_queue, num_threads, idle_sem,
                   yielded, running, started, wire, pool_created>>

\* The sequential loop calls process_single_query(i): the request goes out.
SeqCall ==
    /\ pc = "seq"
    /\ i <= Len(queries)
    /\ running' = running \cup {i}
    /\ started' = Append(started, i)
    /\ wire' = [wire EXCEPT ![i] = Append(@, CompletionPayload(queries[i]).prompt)]
    /\ pc' = "seq_wait"
    /\ UNCHANGED call_vars
    /\ UNCHANGED <<queries, return_error, concurrent, max_concurrent, results,
                   errors, i, futures, work_queue, num_threads, idle_sem,
                   yielded, pool_created, retval>>

\* The call comes back (or raises) and the loop body stores its outcome.
SeqStore ==
    /\ pc = "seq_wait"
    /\ \E out \in TaskOutcomes(i) :
         /\ results' = StoreResults(results, i, out)
         /\ errors' = StoreErrors(errors, i, out)
         /\ futures' = [futures EXCEPT ![i] = [state |-> "finished", outcome |-> Some(out)]]
    /\ running' = running \ {i}
    /\ i' = i + 1
    /\ pc' = "seq"
    /\ UNCHANGED call_vars
    /\ UNCHANGED <<queries, return_error, concurrent, max_concurrent, work_queue,
                   num_threads, idle_sem, yielded, started, wire, pool_created,
                   retval>>

\* A variant whose loop stops one index short.
ReturnSequentialEarly ==
    /\ pc = "seq"
    /\ i >= Len(queries)
    /\ pc' = "returned"
    /\ retval' = Some(BatchReturnValue)
    /\ UNCHANGED call_vars
    /\ UNCHANGED <<queries, return_error, concurrent, max_concurrent, results,
                   errors, i, futures, work_queue, num_threads, idle_sem,
                   yielded, running, started, wire, pool_created>>

ReturnSequential ==
    /\ pc = "seq"
    /\ i > Len(queries)
    /\ pc' = "returned"
    /\ retval' = Some(BatchReturnValue)
    /\ UNCHANGED call_vars
    /\ UNCHANGED <<queries, return_error, concurrent, max_concurrent, results,
                   errors, i, futures, work_queue, num_threads, idle_sem,
                   yielded, running, started, wire, pool_created>>

\* ========================================================= a single call
MessageLists ==
    { <<Msg("user", Str("hi"))>>,
      <<Msg("system", Str("be brief"))>>,
      <<Msg("user", Str("hi")), Msg("assistant", Str("yo"))>>,
      <<Msg("user", List(<<TextBlock("hi")>>))>>,
      <<Msg("user", Other)>>,
      <<>>,
      <<Msg("user", Str("one")), Msg("user", List(<<TextBlock("two")>>)),
        Msg("assistant", Str("yo"))>>,
      <<Msg("user", List(<<TextBlock("old")>>)), Msg("user", Str("new"))>> }

ImageLists == UNION { [1..n -> DOMAIN FS] : n \in 0..MaxImages }

Call(fn, return_error_, query, messages, image_paths, api_type) ==
    [fn |-> fn, return_error |-> return_error_, query |-> query,
     messages |-> messages, image_paths |-> image_paths, api_type |-> api_type,
     kwargs |-> NoKwargs]

\* The calls that build a payload, made with extra keyword arguments.
KwargCalls ==
    { [c EXCEPT !.kwargs = kw] :
        c \in { Call("run_completions", re, "p1", <<>>, <<>>, "chat") : re \in BOOLEAN }
               \cup { Call("run_chat_completions", re, "", <<Msg("user", Str("hi"))>>,
                            <<>>, "chat") : re \in BOOLEAN }
               \cup { Call("run_vision_request", TRUE, "p1", <<>>, <<"a.jpg">>, "chat"),
                      Call("generate_response_stream", FALSE, "p1", <<>>, <<>>, "chat"),
                      Call("generate_chat_response_streaming", FALSE, "",
                           <<Msg("user", Str("hi"))>>, <<>>, "chat") },
        kw \in KwargSets }

\* The status codes an APIError is built with: none, zero, the codes of
\* ERROR_CODES, and codes outside it below and above 500.
StatusCodes ==
    {None} \cup { Some(c) : c \in DOMAIN ERROR_CODES \cup {0, 200, 302, 402, 418, 501, 505} }

\* APIError(url, status_code, message, method) built directly.
ErrorCall(url, status_code, message, method) ==
    Call("APIError", FALSE, "", <<>>, <<>>, "")
    @@ [url |-> url, status_code |-> status_code, message |-> message, method |-> method]

ErrorCalls ==
    { ErrorCall(url, sc, m, meth) :
        url \in {completions_endpoint, chat_endpoint}, sc \in StatusCodes,
        m \in {"", "denied"}, meth \in {"POST", "GET"} }

\* The calls of create_client: the provider names, two names it does not
\* know, every kind of deployment, without and with an extra keyword.
Providers == {"openai", "azure", "bedrock", "gemini", "OpenAI", ""}
Deployments == {None, Some(""), Some("dep")}
FactoryCalls ==
    { [kwargs |-> kw, provider |-> p, deployment |-> d]
        @@ Call("create_client", FALSE, "", <<>>, <<>>, "") :
        p \in Providers, d \in Deployments, kw \in {NoKwargs, [timeout |-> 30]} }

\* The messages the Bedrock functions are called with.
BedrockMessageLists ==
    { <<Msg("user", Str("hi"))>>, <<Msg("user", List(<<BedrockText("hi")>>))>> }

Calls ==
    ErrorCalls
    \cup FactoryCalls
    \cup KwargCalls
    \cup { Call("validate_image_paths", FALSE, "", <<>>, ip, "") : ip \in ImageLists }
    \cup
    { Call("run_completions", re, "p1", <<>>, <<>>, "chat") : re \in BOOLEAN }
    \cup { Call("run_chat_completions", re, "", m, ip, "chat") :
             re \in BOOLEAN, m \in MessageLists, ip \in ImageLists }
    \cup { Call("run_vision_request", re, "p1", <<>>, ip, at) :
             re \in BOOLEAN, ip \in ImageLists, at \in {"chat", "completions"} }
    \cup { Call("format_messages_for_bedrock", FALSE, "", m, ip, "") :
             m \in MessageLists, ip \in ImageLists }
    \cup { Call("generate_chat_response", FALSE, "", m, ip, "") :
             m \in BedrockMessageLists, ip \in ImageLists }
    \cup { Call("run_chat_completions_streaming", FALSE, "", m, ip, "") :
             m \in BedrockMessageLists, ip \in ImageLists }
    \cup { Call("generate_response_stream", FALSE, "p1", <<>>, <<>>, "chat") }
    \cup { Call("generate_chat_response_streaming", FALSE, "", m, ip, "chat") :
             m \in MessageLists, ip \in ImageLists }

\* The streams a provider can send: up to MaxLines lines.
Streams(lines) == UNION { [1..n -> lines] : n \in 0..MaxLines }

\* The streams looked at for the call that is made.  How the lines are read
\* does not depend on the payload, so the call without images and keyword
\* arguments gets every stream and the other calls get a stream that closes
\* at once and a stream that is only the "[DONE]" marker.
StreamBodies ==
    IF c_in.kwargs = NoKwargs /\ c_in.image_paths = <<>>
       /\ (c_in.fn = "generate_response_stream"
             \/ c_in.messages = <<Msg("user", Str("hi"))>>)
    THEN Streams(IF c_in.fn = "generate_response_stream"
                 THEN CompletionLines ELSE ChatLines)
    ELSE {<<>>, <<DoneLine>>}

\* The answers a streaming request can get: a good answer carries the lines
\* response.iter_lines() will give.
StreamPosts ==
    { Returned(Response(200, "", [lines |-> st])) : st \in StreamBodies }
    \cup { Returned(Response(s, "denied", [id |-> "x"])) : s \in ErrorStatuses }
    \cup NetworkFailures

\* The event streams converse_stream returns.
EventStreams ==
    IF c_in.image_paths = <<>> /\ c_in.messages = <<Msg("user", Str("hi"))>>
    THEN Streams(BedrockEvents) ELSE {<<>>, <<TextEvent("b1")>>}
ConverseStreams ==
    { Returned(Response(200, "", [stream |-> st])) : st \in EventStreams }

NoPost == Raised("", None)

CallIdle ==
    /\ c_in = Call("", FALSE, "", <<>>, <<>>, "")
    /\ c_pc = "idle"
    /\ c_posts = 0
    /\ c_post = None
    /\ c_out = None
    /\ c_messages = c_in.messages
    /\ c_payload = None
    /\ c_pos = 0
    /\ c_yielded = <<>>
    /\ c_clients = <<>>

BatchIdle ==
    /\ queries = <<>>
    /\ return_error = FALSE
    /\ concurrent = FALSE
    /\ max_concurrent = 1
    /\ pc = "idle"
    /\ results = <<>>
    /\ errors = <<>>
    /\ i = 0
    /\ futures = <<>>
    /\ work_queue = <<>>
    /\ num_threads = 0
    /\ idle_sem = 0
    /\ yielded = <<>>
    /\ running = {}
    /\ started = <<>>
    /\ wire = <<>>
    /\ pool_created = FALSE
    /\ retval = None

CallInit ==
    /\ c_in \in Calls
    /\ c_pc = "called"
    /\ c_posts = 0
    /\ c_post = None
    /\ c_out = None
    /\ c_messages = c_in.messages
    /\ c_payload = None
    /\ c_pos = 0
    /\ c_yielded = <<>>
    /\ c_clients = <<>>

\* The constructor of APIError runs; the caller holds the exception object.
APIErrorConstruct ==
    /\ c_pc = "called"
    /\ c_in.fn = "APIError"
    /\ c_out' = Some(ReturnOne(Some(APIError_init(c_in.url, c_in.status_code,
                                                  c_in.message, c_in.method))))
    /\ c_pc' = "done"
    /\ UNCHANGED batch_vars
    /\ UNCHANGED <<c_in, c_posts, c_post, c_messages, c_payload, c_pos, c_yielded, c_clients>>

\* validate_image_paths called on its own: it returns the list or raises.
ValidatePaths ==
    /\ c_pc = "called"
    /\ c_in.fn = "validate_image_paths"
    /\ LET v == validate_image_paths(c_in.image_paths) IN
         c_out' = Some(IF v.exc # NoExc THEN Raise(v.exc) ELSE ReturnOne(v.value))
    /\ c_pc' = "done"
    /\ UNCHANGED batch_vars
    /\ UNCHANGED <<c_in, c_posts, c_post, c_messages, c_payload, c_pos, c_yielded, c_clients>>

\* format_messages_for_bedrock called on its own: it returns the formatted
\* list or raises, and the caller's list is what the shared contents make
\* of it.
BedrockFormat ==
    /\ c_pc = "called"
    /\ c_in.fn = "format_messages_for_bedrock"
    /\ LET f == format_messages_for_bedrock(c_in.messages, c_in.image_paths) IN
         /\ c_out' = Some(IF f.exc # NoExc THEN Raise(f.exc) ELSE ReturnOne(f.value))
         /\ c_messages' = CallerView(c_messages, f.copy)
    /\ c_pc' = "done"
    /\ UNCHANGED batch_vars
    /\ UNCHANGED <<c_in, c_posts, c_post, c_payload, c_pos, c_yielded, c_clients>>

\* run_completions sends its request.
CompletionsSend ==
    /\ c_pc = "called"
    /\ c_in.fn = "run_completions"
    /\ \E post \in CompletionPosts(CompletionPayload(c_in.query)) : c_post' = Some(post)
    /\ c_posts' = c_posts + 1
    /\ c_payload' = Some(update(CompletionPayload(c_in.query), c_in.kwargs))
    /\ c_pc' = "sent"
    /\ UNCHANGED batch_vars
    /\ UNCHANGED <<c_in, c_out, c_messages, c_pos, c_yielded, c_clients>>

\* run_completions unwraps the answer or handles the exception, and returns.
CompletionsFinish ==
    /\ c_pc = "sent"
    /\ c_in.fn = "run_completions"
    /\ c_out' = Some(run_completions(c_in.query, c_in.return_error, Value(c_post)))
    /\ c_pc' = "done"
    /\ UNCHANGED batch_vars
    /\ UNCHANGED <<c_in, c_posts, c_post, c_messages, c_payload, c_pos, c_yielded, c_clients>>

\* A variant that checks api_type only and leaves the paths to the chat call.
VisionValidateApiTypeOnly ==
    /\ c_pc = "called"
    /\ c_in.fn = "run_vision_request"
    /\ IF c_in.api_type # "chat"
       THEN /\ c_out' = vision_checks(c_in.image_paths, c_in.api_type, c_in.return_error)
            /\ c_pc' = "done"
       ELSE c_pc' = "chat" /\ UNCHANGED c_out
    /\ UNCHANGED batch_vars
    /\ UNCHANGED <<c_in, c_posts, c_post, c_messages, c_payload, c_pos, c_yielded, c_clients>>

\* run_vision_request checks api_type and the image paths; when a check
\* fails the call ends here, otherwise it goes on into run_chat_completions.
VisionValidate ==
    /\ c_pc = "called"
    /\ c_in.fn = "run_vision_request"
    /\ LET v == vision_checks(c_in.image_paths, c_in.api_type, c_in.return_error) IN
         IF v # None
         THEN c_out' = v /\ c_pc' = "done"
         ELSE c_pc' = "chat" /\ UNCHANGED c_out
    /\ UNCHANGED batch_vars
    /\ UNCHANGED <<c_in, c_posts, c_post, c_messages, c_payload, c_pos, c_yielded, c_clients>>

ChatMessages == IF c_in.fn = "run_vision_request"
                THEN VisionMessages(c_in.query) ELSE c_in.messages

\* The **kwargs run_chat_completions gets: the caller's, and from
\* run_vision_request also generation_params, which run_chat_completions
\* has no parameter for (the default None is passed on here).
ChatKwargs == IF c_in.fn = "run_vision_request"
              THEN [generation_params |-> None] @@ c_in.kwargs ELSE c_in.kwargs

\* run_chat_completions copies the messages and injects the images; when
\* an image cannot be encoded the exception is handled and the call ends
\* without a request.
ChatPrepare ==
    /\ \/ c_pc = "called" /\ c_in.fn = "run_chat_completions"
       \/ c_pc = "chat"
    /\ IF InjectImages(ChatMessages, c_in.image_paths).exc # NoExc
       THEN /\ c_out' = Some(run_chat_completions(ChatMessages, c_in.return_error,
                                                  c_in.image_paths, NoPost))
            /\ c_pc' = "done"
       ELSE c_pc' = "ready" /\ UNCHANGED c_out
    /\ c_messages' = CallerView(c_messages,
                                InjectImages(ChatMessages, c_in.image_paths).copy)
    /\ UNCHANGED batch_vars
    /\ UNCHANGED <<c_in, c_posts, c_post, c_payload, c_pos, c_yielded, c_clients>>

ChatSend ==
    /\ c_pc = "ready"
    /\ c_in.fn \in {"run_chat_completions", "run_vision_request"}
    /\ \E post \in ChatPosts : c_post' = Some(post)
    /\ c_posts' = c_posts + 1
    /\ c_payload' = Some(update(ChatPayload(Value(InjectImages(
                                    ChatMessages, c_in.image_paths).value)),
                                ChatKwargs))
    /\ c_pc' = "sent"
    /\ UNCHANGED batch_vars
    /\ UNCHANGED <<c_in, c_out, c_messages, c_pos, c_yielded, c_clients>>

ChatFinish ==
    /\ c_pc = "sent"
    /\ c_in.fn \in {"run_chat_completions", "run_vision_request"}
    /\ c_out' = Some(IF c_in.fn = "run_vision_request"
                      THEN run_vision_request(c_in.query, c_in.image_paths,
                                              c_in.api_type, c_in.return_error,
                                              Value(c_post))
                      ELSE run_chat_completions(c_in.messages, c_in.return_error,
                                                c_in.image_paths, Value(c_post)))
    /\ c_pc' = "done"
    /\ UNCHANGED batch_vars
    /\ UNCHANGED <<c_in, c_posts, c_post, c_messages, c_payload, c_pos, c_yielded, c_clients>>

\* generate_chat_response_streaming validates and injects the images; a
\* failure is raised to the consumer before anything is sent.
StreamPrepare ==
    /\ c_pc = "called"
    /\ c_in.fn = "generate_chat_response_streaming"
    /\ LET prep == StreamChatPrepare(c_in.messages, c_in.image_paths) IN
         IF prep.exc # NoExc
         THEN c_out' = Some(Raise(prep.exc)) /\ c_pc' = "done"
         ELSE c_pc' = "ready" /\ UNCHANGED c_out
    /\ c_messages' = CallerView(c_messages,
                                StreamChatPrepare(c_in.messages, c_in.image_paths).copy)
    /\ UNCHANGED batch_vars
    /\ UNCHANGED <<c_in, c_posts, c_post, c_payload, c_pos, c_yielded, c_clients>>

StreamSend ==
    /\ \/ c_pc = "called" /\ c_in.fn = "generate_response_stream"
       \/ c_pc = "ready" /\ c_in.fn = "generate_chat_response_streaming"
    /\ \E post \in StreamPosts : c_post' = Some(post)
    /\ c_posts' = c_posts + 1
    /\ c_payload' = Some(update(StreamPayload(
                                    IF c_in.fn = "generate_response_stream"
                                    THEN CompletionPayload(c_in.query)
                                    ELSE ChatPayload(Value(StreamChatPrepare(
                                             c_in.messages, c_in.image_paths).value))),
                                c_in.kwargs))
    /\ c_pc' = "sent"
    /\ UNCHANGED batch_vars
    /\ UNCHANGED <<c_in, c_out, c_messages, c_pos, c_yielded, c_clients>>

StreamUrl == IF c_in.fn = "generate_response_stream"
             THEN completions_endpoint ELSE chat_endpoint

\* The request failed or raise_for_status raised: the generator raises.
StreamFail ==
    /\ c_pc = "sent"
    /\ c_in.fn \in {"generate_response_stream", "generate_chat_response_streaming"}
    /\ StreamOpenExc(Value(c_post)) # NoExc
    /\ c_out' = Some(Raise(StreamException(StreamOpenExc(Value(c_post)), StreamUrl)))
    /\ c_pc' = "done"
    /\ UNCHANGED batch_vars
    /\ UNCHANGED <<c_in, c_posts, c_post, c_messages, c_payload, c_pos, c_yielded, c_clients>>

\* The stream is open: the generator goes on to read its lines.
StreamOpen ==
    /\ c_pc = "sent"
    /\ c_in.fn \in {"generate_response_stream", "generate_chat_response_streaming"}
    /\ StreamOpenExc(Value(c_post)) = NoExc
    /\ c_pc' = "streaming"
    /\ UNCHANGED batch_vars
    /\ UNCHANGED <<c_in, c_posts, c_post, c_out, c_messages, c_payload, c_pos, c_yielded, c_clients>>

\* response.iter_lines() of the answer the call got.
StreamLines == Value(Value(c_post).response).json.lines

\* The consumer pulls and the generator takes the next line of the stream:
\* it goes on, yields a fragment, leaves the loop at "[DONE]" and ends, or
\* raises the APIError made from the exception of iter_lines.
StreamRead ==
    /\ c_pc = "streaming"
    /\ c_in.fn \in {"generate_response_stream", "generate_chat_response_streaming"}
    /\ c_pos < Len(StreamLines)
    /\ c_pos' = c_pos + 1
    /\ LET r == read_line(c_in.fn, StreamLines[c_pos + 1]) IN
         CASE r.k = "continue" -> UNCHANGED <<c_pc, c_out, c_yielded>>
           [] r.k = "yield" -> /\ c_yielded' = Append(c_yielded, r.text)
                               /\ UNCHANGED <<c_pc, c_out>>
           [] r.k = "break" -> /\ c_pc' = "done"
                               /\ c_out' = Some(ReturnOne(None))
                               /\ UNCHANGED c_yielded
           [] r.k = "raise" -> /\ c_pc' = "done"
                               /\ c_out' = Some(Raise(StreamException(
                                      Exc("RequestException", r.text, None), StreamUrl)))
                               /\ UNCHANGED c_yielded
    /\ UNCHANGED batch_vars
    /\ UNCHANGED <<c_in, c_posts, c_post, c_messages, c_payload, c_clients>>

\* The transport closed the stream: the loop is over and the generator ends.
StreamEnd ==
    /\ c_pc = "streaming"
    /\ c_in.fn \in {"generate_response_stream", "generate_chat_response_streaming"}
    /\ c_pos = Len(StreamLines)
    /\ c_pc' = "done"
    /\ c_out' = Some(ReturnOne(None))
    /\ UNCHANGED batch_vars
    /\ UNCHANGED <<c_in, c_posts, c_post, c_messages, c_payload, c_pos, c_yielded, c_clients>>

\* create_client runs: it raises, or the one constructor it calls raises,
\* or the adapter is constructed and returned.
CreateClient ==
    /\ c_pc = "called"
    /\ c_in.fn = "create_client"
    /\ LET r == create_client(c_in.provider, c_in.deployment, c_in.kwargs) IN
         /\ c_out' = Some(IF r.exc # NoExc THEN Raise(r.exc) ELSE ReturnOne(r.value))
         /\ c_clients' = IF r.exc # NoExc THEN c_clients
                         ELSE Append(c_clients, Value(r.value))
    /\ c_pc' = "done"
    /\ UNCHANGED batch_vars
    /\ UNCHANGED <<c_in, c_posts, c_post, c_messages, c_payload, c_pos, c_yielded>>

BedrockCalls == {"generate_chat_response", "run_chat_completions_streaming"}

\* Both Bedrock functions validate the paths and format the messages
\* first; a failure is raised without a request.
BedrockPrepare ==
    /\ c_pc = "called"
    /\ c_in.fn \in BedrockCalls
    /\ LET prep == BedrockPrepared(c_in.messages, c_in.image_paths) IN
         /\ IF prep.exc # NoExc
            THEN /\ c_out' = Some(IF c_in.fn = "generate_chat_response"
                                  THEN generate_chat_response(c_in.messages,
                                                              c_in.image_paths, NoPost)
                                  ELSE Raise(BedrockStreamException(prep.exc)))
                 /\ c_pc' = "done"
            ELSE c_pc' = "converse" /\ UNCHANGED c_out
         /\ c_messages' = CallerView(c_messages, prep.copy)
    /\ UNCHANGED batch_vars
    /\ UNCHANGED <<c_in, c_posts, c_post, c_payload, c_pos, c_yielded, c_clients>>

\* client.converse answers and generate_chat_response returns or raises.
BedrockConverse ==
    /\ c_pc = "converse"
    /\ c_in.fn = "generate_chat_response"
    /\ \E converse \in ConverseResponses \cup ConverseFailures :
         /\ c_post' = Some(converse)
         /\ c_out' = Some(generate_chat_response(c_in.messages, c_in.image_paths,
                                                 converse))
    /\ c_posts' = c_posts + 1
    /\ c_pc' = "done"
    /\ UNCHANGED batch_vars
    /\ UNCHANGED <<c_in, c_messages, c_payload, c_pos, c_yielded, c_clients>>

\* client.converse_stream answers: the events are there to be read, or the
\* outer except clauses take the exception.
BedrockConverseStream ==
    /\ c_pc = "converse"
    /\ c_in.fn = "run_chat_completions_streaming"
    /\ \E converse \in ConverseStreams \cup ConverseFailures :
         /\ c_post' = Some(converse)
         /\ IF converse.raised
            THEN /\ c_out' = Some(Raise(BedrockStreamException(
                                  Exc(converse.class, converse.str, converse.response))))
                 /\ c_pc' = "done"
            ELSE c_pc' = "events" /\ UNCHANGED c_out
    /\ c_posts' = c_posts + 1
    /\ UNCHANGED batch_vars
    /\ UNCHANGED <<c_in, c_messages, c_payload, c_pos, c_yielded, c_clients>>

BedrockStreamEvents == Value(Value(c_post).response).json.stream

\* The generator takes the next event.
BedrockRead ==
    /\ c_pc = "events"
    /\ c_pos < Len(BedrockStreamEvents)
    /\ c_pos' = c_pos + 1
    /\ LET r == read_event(BedrockStreamEvents[c_pos + 1]) IN
         CASE r.k = "continue" -> UNCHANGED <<c_pc, c_out, c_yielded>>
           [] r.k = "yield" -> /\ c_yielded' = Append(c_yielded, r.text)
                               /\ UNCHANGED <<c_pc, c_out>>
           [] r.k = "return" -> /\ c_pc' = "done"
                                /\ c_out' = Some(ReturnOne(None))
                                /\ UNCHANGED c_yielded
    /\ UNCHANGED batch_vars
    /\ UNCHANGED <<c_in, c_posts, c_post, c_messages, c_payload, c_clients>>

\* The events are exhausted and the generator ends.
BedrockEnd ==
    /\ c_pc = "events"
    /\ c_pos = Len(BedrockStreamEvents)
    /\ c_pc' = "done"
    /\ c_out' = Some(ReturnOne(None))
    /\ UNCHANGED batch_vars
    /\ UNCHANGED <<c_in, c_posts, c_post, c_messages, c_payload, c_pos, c_yielded, c_clients>>

\* ===================================================== the specification
\* Either a batch is run or one single call is made.
Init == \/ BatchInit /\ CallIdle
        \/ CallInit /\ BatchIdle

Next ==
    \/ ReturnEmpty
    \/ StartSequential
    \/ StartConcurrent
    \/ Submit
    \/ WorkerStart
    \/ \E idx \in DOMAIN futures : \E out \in TaskOutcomes(idx) : WorkerFinish(idx, out)
    \/ \E idx \in DOMAIN futures : Collect(idx)
    \/ ReturnConcurrent
    \/ SeqCall
    \/ SeqStore
    \/ ReturnSequential
    \/ APIErrorConstruct
    \/ ValidatePaths
    \/ BedrockFormat
    \/ CompletionsSend
    \/ CompletionsFinish
    \/ VisionValidate
    \/ ChatPrepare
    \/ ChatSend
    \/ ChatFinish
    \/ StreamPrepare
    \/ StreamSend
    \/ StreamFail
    \/ StreamOpen
    \/ StreamRead
    \/ StreamEnd
    \/ CreateClient
    \/ BedrockPrepare
    \/ BedrockConverse
    \/ BedrockConverseStream
    \/ BedrockRead
    \/ BedrockEnd

Spec == Init /\ [][Next]_vars

\* ============================================================ properties
Returned_ == pc = "returned"
Ret == Value(retval)
Outcome(k) == Value(futures[k].outcome)
Failed(k) == Outcome(k).raised \/ Outcome(k).error # None

\* The slot a task's outcome calls for: its result and error, or no result
\* and a processing error when the task raised.
SlotOf(out) ==
    IF out.raised THEN <<None, Some(ProcessingError(out.exc))>>
    ELSE <<out.result, out.error>>

Out == Value(c_out)
Post == Value(c_post)
Status == Value(Post.response).status_code

ResultCalls == {"run_completions", "run_chat_completions", "run_vision_request"}
StreamCalls == {"generate_response_stream", "generate_chat_response_streaming"}

\* The faults of a call, read off its inputs and the transport's answer.
TransportFault ==
    /\ c_post # None
    /\ \/ Post.raised
       \/ 400 <= Status /\ Status < 600
ShapeFault ==
    /\ c_post # None
    /\ ~Post.raised
    /\ Status = 200
    /\ Value(Post.response).json \notin
         { OkBody(c_in.query),
           [choices |-> [t |-> "list", v |-> <<[message |-> [content |-> ChatReply]]>>]] }
ValidationFault ==
    /\ c_in.fn \in {"run_chat_completions", "run_vision_request"}
    /\ \E k \in DOMAIN c_in.image_paths :
         ~Exists(c_in.image_paths[k]) \/ ~IsFile(c_in.image_paths[k])
CallFault == TransportFault \/ ShapeFault \/ ValidationFault

\* C1: when run_completions_batch returns for a non-empty input, the
\* results list (and the errors list, with return_error) is as long as the
\* input, and slot k holds the outcome of the one call that was sent with
\* queries[k]: a result in slot k is the answer to queries[k].
C1_IndexAligned ==
    (Returned_ /\ queries # <<>>) =>
        /\ Len(Ret.results) = Len(queries)
        /\ return_error <=> Ret.errors # None
        /\ return_error => Len(Value(Ret.errors)) = Len(queries)
        /\ \A k \in 1..Len(queries) :
             /\ wire[k] = <<queries[k]>>
             /\ Ret.results[k] = SlotOf(Outcome(k))[1]
             /\ return_error => Value(Ret.errors)[k] = SlotOf(Outcome(k))[2]
             /\ Ret.results[k] # None => Ret.results[k] = Some(Reply(queries[k]))

\* A concurrent batch of three has returned; the third task was the first
\* to be picked up by the loop and the second one failed.
C1_Witness ==
    /\ Returned_ /\ concurrent /\ return_error
    /\ Len(queries) = 3
    /\ yielded[1] = 3
    /\ results[1] # None /\ results[3] # None
    /\ errors[2] # None

\* C2: when the batch has returned and the call for index k failed (error
\* details came back, or the task raised), slot k alone carries that
\* failure: every other index was attempted once, its future finished, and
\* its slot is what its own outcome calls for.
C2_FailureIsolated ==
    (Returned_ /\ queries # <<>>) =>
        \A k \in 1..Len(queries) :
            Failed(k) =>
                /\ results[k] = None
                /\ errors[k] # None
                /\ \A j \in (1..Len(queries)) \ {k} :
                     /\ Len(wire[j]) = 1
                     /\ futures[j].state = "finished"
                     /\ <<results[j], errors[j]>> = SlotOf(Outcome(j))
                     /\ ~Failed(j) =>
                          results[j] = Some(Reply(queries[j])) /\ errors[j] = None

\* The batch ["p1","p2","p3"] with two workers, where the task for p2
\* raised and the two others succeeded.
C2_Witness ==
    /\ Returned_ /\ concurrent /\ max_concurrent = 2
    /\ Len(queries) = 3
    /\ Outcome(2).raised
    /\ results[1] = Some(Reply(queries[1]))
    /\ results[3] = Some(Reply(queries[3]))
    /\ errors[1] = None /\ errors[3] = None

\* C3: no index is ever attempted twice, and when the batch has returned
\* every index has been attempted exactly once, no call is in flight and no
\* work item is waiting.
C3_AllAttemptedOnce ==
    /\ \A k \in DOMAIN wire : Len(wire[k]) <= 1
    /\ Returned_ =>
         /\ \A k \in 1..Len(queries) :
              Len(wire[k]) = 1 /\ futures[k].state = "finished"
         /\ running = {}
         /\ work_queue = <<>>

\* A sequential batch of three has returned although its first call failed.
C3_Witness ==
    /\ Returned_ /\ ~concurrent
    /\ Len(queries) = 3
    /\ Failed(1)
    /\ Len(started) = 3

\* C4: in concurrent mode with max_concurrent > 1 and more than one
\* prompt, the calls in flight never number more than max_concurrent.
C4_BoundedInFlight ==
    (concurrent /\ max_concurrent > 1 /\ Len(queries) > 1) =>
        Cardinality(running) <= max_concurrent

\* Two calls are in flight with two workers while a third item waits.
C4_Witness ==
    /\ concurrent /\ max_concurrent = 2
    /\ Cardinality(running) = 2
    /\ work_queue # <<>>

\* C5: with max_concurrent <= 1 (0 and negative included) or a single
\* prompt, the batch runs one call at a time in input order and comes back
\* with the full aligned result; in particular it does not raise.
C5_SequentialBelowTwo ==
    (pc # "idle" /\ queries # <<>> /\ (max_concurrent <= 1 \/ Len(queries) = 1)) =>
        /\ pc # "raised"
        /\ Cardinality(running) <= 1
        /\ started = [k \in 1..Len(started) |-> k]
        /\ Returned_ => \A k \in 1..Len(queries) :
                           <<results[k], errors[k]>> = SlotOf(Outcome(k))

\* C6: for an empty input the batch makes no call and creates no pool; its
\* only step is the return of [] or, with return_error, of ([], []).
C6_EmptyInput ==
    (pc # "idle" /\ queries = <<>>) =>
        /\ started = <<>>
        /\ running = {}
        /\ ~pool_created
        /\ pc \in {"start", "returned"}
        /\ Returned_ =>
             /\ Ret.results = <<>>
             /\ Ret.errors = IF return_error THEN Some(<<>>) ELSE None

\* The empty batch has returned the pair of empty lists.
C6_Witness ==
    /\ Returned_ /\ queries = <<>> /\ return_error
    /\ Ret.errors = Some(<<>>)

\* C7: a pair returned by run_completions or run_chat_completions, and a
\* slot of the batch lists, never has both a result and error details.
C7_NeverBoth ==
    /\ \A k \in DOMAIN results : ~(results[k] # None /\ errors[k] # None)
    /\ (c_pc = "done" /\ c_in.return_error
            /\ c_in.fn \in {"run_completions", "run_chat_completions"}) =>
         /\ Out.pair
         /\ ~(Out.result # None /\ Out.error # None)

\* run_completions has come back from an HTTP error with a pair whose
\* result is null and whose error is not.
C7_Witness ==
    /\ c_pc = "done" /\ c_in.fn = "run_completions" /\ c_in.return_error
    /\ TransportFault /\ ~Post.raised
    /\ Out.result = None /\ Out.error # None

\* C8: with return_error=True the three calls do not raise for a
\* transport, response-shape or image validation fault: they return
\* (None, error_details) with error_details present.
C8_ReturnsErrorPair ==
    (c_pc = "done" /\ c_in.fn \in ResultCalls /\ c_in.return_error /\ CallFault) =>
        /\ ~Out.raised
        /\ Out.pair
        /\ Out.result = None
        /\ Out.error # None

\* run_vision_request with return_error=True was given a path that does
\* not exist and handed back the image-not-found error.
C8_Witness ==
    /\ c_pc = "done" /\ c_in.fn = "run_vision_request" /\ c_in.return_error
    /\ c_in.api_type = "chat"
    /\ ValidationFault
    /\ ~Out.raised
    /\ Out.error # None /\ Value(Out.error).error_type = "Image file not found"

\* C9 as stated: with return_error=False a fault is raised as an exception
\* whose message embeds URL, method, status, classification and suggestion.
C9_FaultIsRaised ==
    (c_pc = "done" /\ c_in.fn \in ResultCalls /\ ~c_in.return_error /\ CallFault) =>
        /\ Out.raised
        /\ Out.exc.class = "APIError"
        /\ {Out.exc.url, Out.exc.method, Out.exc.error_type} \subseteq Range(Out.exc.str)

\* C9 as amended: with return_error=False a transport or response-shape
\* fault (and an unusable image path given to run_chat_completions) is not
\* raised, the call returns None; only run_vision_request's own path
\* validation raises, a FileNotFoundError, before any request is sent.
C9_FaultReturnsNone ==
    (c_pc = "done" /\ c_in.fn \in ResultCalls /\ ~c_in.return_error /\ CallFault
        /\ (c_in.fn = "run_vision_request" => c_in.api_type = "chat")) =>
        IF c_in.fn = "run_vision_request" /\ ValidationFault
        THEN /\ Out.raised
             /\ Out.exc.class = "FileNotFoundError"
             /\ c_posts = 0
        ELSE /\ ~Out.raised
             /\ ~Out.pair
             /\ Out.result = None

\* run_completions with return_error=False met an HTTP error and returned
\* None.
C9_Witness ==
    /\ c_pc = "done" /\ c_in.fn = "run_completions" /\ ~c_in.return_error
    /\ TransportFault /\ ~Post.raised
    /\ Out = ReturnOne(None)

\* C10: when the provider answers with a non-2xx status s, the error
\* details of run_completions / run_chat_completions, and the APIError the
\* streaming functions raise, carry status_code = s with the error_type and
\* suggestion of s, and not the classification of the no-status case.
C10_StatusCarried ==
    (c_pc = "done" /\ c_post # None /\ ~Post.raised /\ ~(200 <= Status /\ Status < 300)) =>
        /\ (c_in.fn \in {"run_completions", "run_chat_completions"} /\ c_in.return_error) =>
             /\ Out.error # None
             /\ Value(Out.error).status_code = Some(Status)
             /\ Value(Out.error).error_type = get_error_type(Some(Status))
             /\ Value(Out.error).suggestion = get_suggestion(Some(Status))
        /\ c_in.fn \in StreamCalls =>
             /\ Out.raised
             /\ Out.exc.class = "APIError"
             /\ Out.exc.status_code = Some(Status)
             /\ Out.exc.error_type = get_error_type(Some(Status))
             /\ Out.exc.suggestion = get_suggestion(Some(Status))

\* ---------------------------------------------------- the classification
Built == Value(Out.result)
ErrorBuilt == c_pc = "done" /\ c_in.fn = "APIError"
Code == Value(c_in.status_code)

\* The same status code with every other url, message and method.
SameClassification ==
    \A e \in ErrorCalls :
        e.status_code = c_in.status_code =>
            LET other == APIError_init(e.url, e.status_code, e.message, e.method) IN
            /\ other.error_type = Built.error_type
            /\ other.suggestion = Built.suggestion

\* C11: an APIError built with a status code of the table (400, 401, 403,
\* 404, 429, 500, 502, 503, 504) has the label of that code as error_type
\* and a non-empty suggestion, and both are the same for every url, method
\* and message the error is built with.
C11_TableClassification ==
    (ErrorBuilt /\ c_in.status_code # None
                /\ Code \in {400, 401, 403, 404, 429, 500, 502, 503, 504}) =>
        /\ Built.error_type =
             CASE Code = 400 -> "Bad Request - The request was malformed or contains invalid parameters"
               [] Code = 401 -> "Unauthorized - Authentication failed, check your API key"
               [] Code = 403 -> "Forbidden - You don't have permission to access this resource"
               [] Code = 404 -> "Not Found - The requested endpoint does not exist"
               [] Code = 429 -> "Too Many Requests - Rate limit exceeded, try again later"
               [] Code = 500 -> "Internal Server Error - Server error, try again later"
               [] Code = 502 -> "Bad Gateway - Gateway error, try again later"
               [] Code = 503 -> "Service Unavailable - Server temporarily unavailable, try again later"
               [] Code = 504 -> "Gateway Timeout - Request timed out, try again later"
        /\ Built.suggestion # ""
        /\ get_details(Built).error_type = Built.error_type
        /\ get_details(Built).suggestion = Built.suggestion
        /\ SameClassification

C11_Witness ==
    /\ ErrorBuilt
    /\ c_in.status_code = Some(429)
    /\ c_in.method = "GET"
    /\ c_in.message = "denied"
    /\ Built.suggestion = "Wait before sending more requests or implement rate limiting"

\* C12 as stated: an APIError built with a present status code outside the
\* table has the error_type "HTTP Error {code}" and an empty suggestion.
C12_UnknownCodeNoSuggestion ==
    (ErrorBuilt /\ c_in.status_code # None /\ Code \notin DOMAIN ERROR_CODES) =>
        /\ Built.error_type = "HTTP Error " \o ToString(Code)
        /\ Built.suggestion = ""

\* C12, amended: an APIError built with a non-zero status code outside the
\* table has the error_type "HTTP Error {code}"; its suggestion is empty
\* when the code is below 500 and is the server hint when the code is 500
\* or more.  A status code of 0 is classified as a missing one.
C12_UnknownCodeClassification ==
    (ErrorBuilt /\ c_in.status_code # None /\ Code \notin DOMAIN ERROR_CODES) =>
        /\ Code # 0 =>
             /\ Built.error_type = "HTTP Error " \o ToString(Code)
             /\ Code < 500 => Built.suggestion = ""
             /\ Code >= 500 =>
                  Built.suggestion = "Try again later or contact the API provider"
        /\ Code = 0 =>
             /\ Built.error_type = "Unknown error"
             /\ Built.suggestion = "Check your network connection and API endpoint URL"
        /\ Code = 402 => Built.error_type = "HTTP Error 402"

C12_Witness ==
    /\ ErrorBuilt
    /\ c_in.status_code = Some(501)
    /\ Built.error_type = "HTTP Error 501"
    /\ Built.suggestion # ""

\* The segments of the text that report a status code.
StatusSegment(str) == \E k \in DOMAIN str : str[k] = " with status code "

MissingKeyOrIndex ==
    /\ ShapeFault
    /\ Value(Post.response).json \in
         { [id |-> "x"],
           [choices |-> [t |-> "list", v |-> <<>>]],
           [choices |-> [t |-> "list", v |-> <<[index |-> 0]>>]],
           [choices |-> [t |-> "list", v |-> <<[message |-> [role |-> "assistant"]]>>]] }

\* Every error_type the classification by status code can give.
StatusErrorTypes ==
    { get_error_type(sc) : sc \in StatusCodes }
    \cup { get_error_type(Some(c)) : c \in ErrorStatuses \cup {302} }
    \cup { ERROR_CODES[c] : c \in DOMAIN ERROR_CODES }
    \cup { "Unknown error" }

\* C14: when run_completions or run_chat_completions gets a 2xx answer
\* whose body lacks "choices", has an empty "choices", or lacks "text" /
\* "message" / "content", its error details have the error_type "Response
\* parsing error", which no status code and no missing status code gives.
C14_ShapeFaultIsParsingError ==
    (c_pc = "done" /\ c_in.fn \in {"run_completions", "run_chat_completions"}
                   /\ c_in.return_error /\ MissingKeyOrIndex) =>
        /\ Out.result = None
        /\ Out.error # None
        /\ Value(Out.error).error_type = "Response parsing error"
        /\ Value(Out.error).error_type \notin StatusErrorTypes

C14_Witness ==
    /\ c_pc = "done"
    /\ c_in.fn = "run_chat_completions"
    /\ c_in.return_error
    /\ MissingKeyOrIndex
    /\ Value(Post.response).json =
         [choices |-> [t |-> "list", v |-> <<[message |-> [role |-> "assistant"]]>>]]
    /\ Value(Out.error).message = "'content'"

\* -------------------------------------------------------- path validation
Validated == c_pc = "done" /\ c_in.fn = "validate_image_paths"

\* A path is offending when nothing is there or what is there is not a
\* regular file.
OffendingPath(p) == FS[p] \in {"absent", "directory"}
Offending(paths) == SelectSeq(paths, OffendingPath)

\* C15: validate_image_paths called with at least one offending path
\* raises FileNotFoundError, and the message is the fixed prefix followed
\* by the offending paths, all of them, in input order, and by no other
\* path.
C15_AllOffendingPathsNamed ==
    (Validated /\ Offending(c_in.image_paths) # <<>>) =>
        /\ Out.raised
        /\ Out.exc.class = "FileNotFoundError"
        /\ Out.exc.str = "The following image files were not found: "
                             \o Join(Offending(c_in.image_paths))
        /\ c_in.image_paths = <<"photos", "missing.jpg">> =>
             Out.exc.str = "The following image files were not found: photos, missing.jpg"
        /\ c_in.image_paths = <<"a.jpg", "missing.jpg">> =>
             Out.exc.str = "The following image files were not found: missing.jpg"

C15_Witness ==
    /\ Validated
    /\ c_in.image_paths = <<"photos", "missing.jpg">>
    /\ Out.raised
    /\ Out.exc.str = "The following image files were not found: photos, missing.jpg"

\* C16: validate_image_paths called with paths that are all regular files
\* returns the list it was given, and validating what it returned gives
\* the same list again.
C16_ValidPathsReturnedUnchanged ==
    (Validated /\ Offending(c_in.image_paths) = <<>>) =>
        /\ ~Out.raised
        /\ Out.result = Some(c_in.image_paths)
        /\ validate_image_paths(Value(Out.result)).exc = NoExc
        /\ validate_image_paths(Value(Out.result)).value = Out.result

C16_Witness ==
    /\ Validated
    /\ c_in.image_paths = <<"locked.jpg", "a.jpg">>
    /\ Out.result = Some(<<"locked.jpg", "a.jpg">>)

\* ------------------------------------------------------ image injection
\* C17: the message list the caller passed to run_chat_completions,
\* generate_chat_response_streaming, run_vision_request or
\* format_messages_for_bedrock is, at every moment of the call and after
\* it, the list the caller passed.
C17_CallerMessagesUntouched == c_messages = c_in.messages

Bedrock == c_in.fn = "format_messages_for_bedrock"

\* The function has built its message list with images in it: the payload
\* of a chat request, or the list format_messages_for_bedrock returned.
Injected ==
    /\ c_in.image_paths # <<>>
    /\ \/ /\ c_in.fn \in {"run_chat_completions", "run_vision_request",
                           "generate_chat_response_streaming"}
          /\ c_payload # None
       \/ Bedrock /\ c_pc = "done" /\ ~Out.raised
Produced == IF Bedrock THEN Value(Out.result) ELSE Value(c_payload).messages
Given == ChatMessages

\* The blocks as the two providers want them.
TextOf(s) == IF Bedrock THEN [text |-> s]
             ELSE [type |-> "text", text |-> s, url |-> ""]
ImageOf(p) ==
    IF Bedrock
    THEN [image |-> [format |-> "jpeg", source |-> [bytes |-> "bytes:" \o p]]]
    ELSE [type |-> "image_url", text |-> "",
          url |-> "data:image/jpeg;base64,b64:" \o p]
IsImage(b) == \/ "image" \in DOMAIN b
              \/ "type" \in DOMAIN b /\ b.type = "image_url"
ImagesOf(paths) == [j \in 1..Len(paths) |-> ImageOf(paths[j])]

GivenUsers == {k \in DOMAIN Given : Given[k].role = "user"}
Target == IF GivenUsers = {} THEN Len(Given) + 1
          ELSE CHOOSE k \in GivenUsers : \A j \in GivenUsers : j <= k
TargetBlocks == Produced[Target].content.v

\* C18: in the list the function builds, the image blocks, one per path,
\* are the last blocks of the last message whose role is user; when the
\* given list has no user message the built list is the given one plus one
\* user message that holds an empty text block and the images; every
\* message other than the target is the given message.
C18_ImagesOnLastUserMessage ==
    Injected =>
        /\ Len(Produced) = IF GivenUsers = {} THEN Len(Given) + 1 ELSE Len(Given)
        /\ \A k \in DOMAIN Given : k # Target => Produced[k] = Given[k]
        /\ Produced[Target].role = "user"
        /\ Produced[Target].content.t = "list"
        /\ Len(TargetBlocks) >= Len(c_in.image_paths)
        /\ \A j \in DOMAIN TargetBlocks :
             LET first_image == Len(TargetBlocks) - Len(c_in.image_paths) + 1 IN
             IF j >= first_image
             THEN TargetBlocks[j] = ImageOf(c_in.image_paths[j - first_image + 1])
             ELSE ~IsImage(TargetBlocks[j])
        /\ GivenUsers = {} =>
             TargetBlocks = <<TextOf("")>> \o ImagesOf(c_in.image_paths)

C18_Witness ==
    /\ Injected
    /\ c_in.fn = "run_chat_completions"
    /\ Given = <<Msg("user", Str("one")), Msg("user", List(<<TextBlock("two")>>)),
                 Msg("assistant", Str("yo"))>>
    /\ c_in.image_paths = <<"a.jpg", "a.jpg">>
    /\ Len(Produced[2].content.v) = 3

C18_WitnessNoUser ==
    /\ Injected
    /\ Bedrock
    /\ Given = <<Msg("system", Str("be brief"))>>
    /\ Len(Produced) = 2

\* C19: when the content of the target user message is a string s, the
\* built content is the text block of s followed by one image block per
\* path, in the order of the paths (1 + k blocks); when it is neither a
\* string nor a list, the built content is one empty text block followed
\* by the image blocks.
C19_ContentNormalised ==
    (Injected /\ GivenUsers # {}) =>
        /\ Given[Target].content.t = "str" =>
             /\ TargetBlocks = <<TextOf(Given[Target].content.v)>>
                                  \o ImagesOf(c_in.image_paths)
             /\ Len(TargetBlocks) = 1 + Len(c_in.image_paths)
        /\ Given[Target].content.t = "other" =>
             TargetBlocks = <<TextOf("")>> \o ImagesOf(c_in.image_paths)

C19_Witness ==
    /\ Injected
    /\ c_in.fn = "run_chat_completions"
    /\ Given = <<Msg("user", Str("hi")), Msg("assistant", Str("yo"))>>
    /\ c_in.image_paths = <<"a.jpg", "a.jpg">>
    /\ TargetBlocks[1].text = "hi"
    /\ Len(TargetBlocks) = 3

C19_WitnessOther ==
    /\ Injected
    /\ Given = <<Msg("user", Other)>>
    /\ TargetBlocks[1] = TextOf("")

Payload == Value(c_payload)
PayloadCalls == ResultCalls \cup StreamCalls

\* C22: the payload generate_response_stream and
\* generate_chat_response_streaming hand to the transport has stream = true,
\* whatever keyword arguments the caller passed.
C22_StreamAlwaysTrue ==
    (c_in.fn \in StreamCalls /\ c_payload # None) => Payload.stream = TRUE

\* C26: in the payload of a completion or chat request, streaming or not,
\* each of max_tokens, temperature and n is 256, 0 and 1 when the caller did
\* not pass that key, and is the caller's value when the caller passed it.
C26_DefaultsUnlessOverridden ==
    (c_in.fn \in PayloadCalls /\ c_payload # None) =>
        /\ Payload.max_tokens = IF "max_tokens" \in DOMAIN c_in.kwargs
                                THEN c_in.kwargs.max_tokens ELSE 256
        /\ Payload.temperature = IF "temperature" \in DOMAIN c_in.kwargs
                                 THEN c_in.kwargs.temperature ELSE 0
        /\ Payload.n = IF "n" \in DOMAIN c_in.kwargs THEN c_in.kwargs.n ELSE 1

C26_Witness ==
    /\ c_in.fn = "generate_chat_response_streaming"
    /\ c_in.kwargs = [temperature |-> 1]
    /\ c_payload # None
    /\ Payload.temperature = 1
    /\ Payload.max_tokens = 256
    /\ Payload.n = 1

\* -------------------------------------------------------------- streams
\* The stream call got a good answer and reads (or has read) its lines.
Reading == /\ c_in.fn \in StreamCalls
           /\ c_post # None
           /\ ~Post.raised
           /\ Status = 200
Lines == Value(Post.response).json.lines

\* The text a line carries for its consumer, "" when it carries none:
\* choices[0].text of a completion chunk; of a chat chunk
\* choices[0].delta.content when choices[0] has a delta, and
\* choices[0].message.content when it has none.
Fragment(line) ==
    IF line.kind # "json" \/ "choices" \notin DOMAIN line.chunk THEN ""
    ELSE IF line.chunk.choices.v = <<>> THEN ""
    ELSE LET choice == line.chunk.choices.v[1]
             part == IF c_in.fn = "generate_response_stream" THEN choice
                     ELSE IF "delta" \in DOMAIN choice THEN choice.delta
                     ELSE IF "message" \in DOMAIN choice THEN choice.message
                     ELSE [none |-> 0]
             key == IF c_in.fn = "generate_response_stream" THEN "text" ELSE "content"
         IN IF key \notin DOMAIN part THEN ""
            ELSE IF c_in.fn = "generate_response_stream" THEN part[key]
            ELSE IF part[key] = None THEN "" ELSE Value(part[key])

\* The fragments of the first n lines, in order.
RECURSIVE Fragments(_)
Fragments(n) ==
    IF n = 0 THEN <<>>
    ELSE IF Fragment(Lines[n]) = "" THEN Fragments(n - 1)
    ELSE Append(Fragments(n - 1), Fragment(Lines[n]))

\* The stream is n data chunks followed by the done marker (and whatever
\* the transport sends after it).
DataThenDone(n) ==
    /\ n + 1 \in DOMAIN Lines
    /\ Lines[n + 1] = DoneLine
    /\ \A k \in 1..n : Fragment(Lines[k]) # ""

\* C23: when the stream is N data chunks followed by the done marker, the
\* generator yields the N fragments in the order of the chunks (after k
\* lines it has yielded the first k), ends normally when it takes the
\* marker, never takes a line after the marker, and once it has ended
\* nothing more is read or yielded.
C23_YieldsChunksThenStops ==
    \A n \in 0..MaxLines :
        (Reading /\ DataThenDone(n)) =>
            /\ c_pos <= n + 1
            /\ c_pc = "streaming" =>
                 /\ c_pos <= n
                 /\ c_yielded = [k \in 1..c_pos |-> Fragment(Lines[k])]
            /\ c_pc = "done" =>
                 /\ c_pos = n + 1
                 /\ ~Out.raised
                 /\ c_yielded = [k \in 1..n |-> Fragment(Lines[k])]
                 /\ ~ENABLED (StreamRead \/ StreamEnd)

C23_Witness ==
    /\ Reading
    /\ c_in.fn = "generate_response_stream"
    /\ DataThenDone(1)
    /\ Len(Lines) = 3
    /\ Fragment(Lines[3]) = "t2"
    /\ c_pc = "done"
    /\ c_yielded = <<"t1">>

\* C29: in generate_chat_response_streaming the fragments yielded are, in
\* order, the non-empty selected contents of the chunks taken so far
\* (delta.content when choices[0] has a delta, message.content only when
\* it has none); a chunk without choices, a chunk with empty or missing
\* content and a line that is not JSON add nothing, and none of them ends
\* the stream: the generator ends normally only at the done marker or when
\* the transport has no more lines.
C29_ChatChunkSelection ==
    (Reading /\ c_in.fn = "generate_chat_response_streaming"
             /\ c_pc \in {"streaming", "done"}) =>
        /\ c_yielded = Fragments(c_pos)
        /\ \A k \in 1..c_pos :
             Lines[k].kind \in {"done", "fault"} => k = c_pos /\ c_pc = "done"
        /\ (c_pc = "done" /\ ~Out.raised) =>
             \/ c_pos >= 1 /\ Lines[c_pos] = DoneLine
             \/ c_pos = Len(Lines)
        /\ \A k \in 1..c_pos :
             Lines[k] = JsonLine(Choices([delta |-> [role |-> "assistant"],
                                          message |-> [content |-> Some("m1")]]))
                 => Fragment(Lines[k]) = ""

C29_Witness ==
    /\ Reading
    /\ c_in.fn = "generate_chat_response_streaming"
    /\ Lines = <<JsonLine(Choices([delta |-> [content |-> Some("d1")],
                                    message |-> [content |-> Some("m1")]])),
                 NotJsonLine,
                 JsonLine(Choices([message |-> [content |-> Some("m1")]]))>>
    /\ c_pc = "done"
    /\ c_yielded = <<"d1", "m1">>

\* ---------------------------------------------- faults of the chat calls
DirectChatCalls ==
    {"run_chat_completions", "generate_chat_response_streaming", "generate_chat_response"}
NotFoundMessage ==
    "The following image files were not found: " \o Join(Offending(c_in.image_paths))

\* C21: a chat call or streaming chat call made directly with image_paths
\* of which at least one is missing or no regular file sends no request and
\* ends in a validation fault that lists all the offending paths: raised,
\* or with return_error returned as the error.  (The APIError in which the
\* Bedrock function wraps the message is taken for one.)
C21_DirectChatValidates ==
    (c_pc = "done" /\ c_in.fn \in DirectChatCalls
        /\ Offending(c_in.image_paths) # <<>>) =>
        /\ c_posts = 0
        /\ IF Out.raised
           THEN \/ Out.exc.class = "FileNotFoundError" /\ Out.exc.str = NotFoundMessage
                \/ /\ Out.exc.class = "APIError"
                   /\ Out.exc.url = "Failed to process response: " \o NotFoundMessage
           ELSE /\ c_in.return_error
                /\ Out.error # None
                /\ Value(Out.error).message = NotFoundMessage

\* The call was given paths that are all regular files, one of which
\* cannot be read.
EncodingFault ==
    /\ \/ c_in.fn = "run_chat_completions"
       \/ c_in.fn = "run_vision_request" /\ c_in.api_type = "chat"
    /\ Offending(c_in.image_paths) = <<>>
    /\ \E k \in DOMAIN c_in.image_paths : encode_image(c_in.image_paths[k]).exc # NoExc

\* C27: when an image of a chat or vision call cannot be read or encoded,
\* the caller gets a fault of a kind of its own: with return_error an error
\* whose error_type is none of those of the transport, response-shape and
\* unexpected faults nor that of the validation fault, without return_error
\* a raised exception.
C27_EncodingFaultDistinct ==
    (c_pc = "done" /\ EncodingFault) =>
        IF c_in.return_error
        THEN /\ ~Out.raised
             /\ Out.error # None
             /\ Value(Out.error).error_type \notin
                  StatusErrorTypes \cup {"Unknown error", "Response parsing error",
                                         "Unexpected error", "Image file not found"}
        ELSE Out.raised

\* The stream call met a fault: the request or the converse_stream call
\* failed, the endpoint answered with an error status, or the stream broke
\* while it was read.
StreamFault ==
    /\ c_in.fn \in StreamCalls \cup {"run_chat_completions_streaming"}
    /\ c_post # None
    /\ \/ Post.raised
       \/ c_in.fn \in StreamCalls /\ ~ResponseOk(Value(Post.response))
       \/ /\ c_in.fn \in StreamCalls
          /\ ResponseOk(Value(Post.response))
          /\ c_pos >= 1 /\ Lines[c_pos] = FaultLine
       \/ /\ c_in.fn = "run_chat_completions_streaming"
          /\ c_pos >= 1 /\ BedrockStreamEvents[c_pos] = FaultEvent

\* C24: a streaming call that meets a fault while the stream is opened or
\* read ends by raising an exception to its consumer, never by ending as a
\* complete stream does.
C24_StreamFaultRaises ==
    (c_pc = "done" /\ StreamFault) => Out.raised

\* ------------------------------------------------- writers of the lists
\* C30: once the pool of a concurrent batch exists, a step that changes the
\* results or the errors list is a turn of the coordinating thread's
\* as_completed loop for a finished future it has not taken before: no
\* worker starts or finishes in that step, only the slot of that future's
\* index changes, and the index joins the ones already taken, so no slot is
\* written twice.
C30_OnlyCoordinatorWrites ==
    [][ (pool_created /\ (results' # results \/ errors' # errors)) =>
          \E idx \in DOMAIN futures :
             /\ pc = "collect"
             /\ futures[idx].state = "finished"
             /\ idx \notin Range(yielded)
             /\ yielded' = Append(yielded, idx)
             /\ UNCHANGED <<futures, running, started, work_queue, num_threads>>
             /\ \A k \in DOMAIN results \ {idx} :
                  results'[k] = results[k] /\ errors'[k] = errors[k]
      ]_vars

\* The coordinating thread has stored a result while a worker is still
\* running another call.
C30_Witness ==
    /\ pool_created
    /\ pc = "collect"
    /\ yielded # <<>>
    /\ running # {}
    /\ results[yielded[1]] # None

\* ------------------------------------------------------------ the factory
Created == c_pc = "done" /\ c_in.fn = "create_client"
KnownProviders == {"openai", "azure", "bedrock", "gemini"}
AdapterClass ==
    [p \in KnownProviders |->
        CASE p = "openai" -> "OpenAIClient"
          [] p = "azure" -> "AzureOpenAIClient"
          [] p = "bedrock" -> "BedrockClient"
          [] p = "gemini" -> "GeminiClient"]
\* The cases in which the configuration is at fault.
ConfigFault ==
    \/ c_in.provider = "azure" /\ c_in.deployment \in {None, Some("")}
    \/ c_in.provider \notin KnownProviders

\* C25: create_client raises a configuration fault, with no adapter
\* constructed and no SDK client set up, exactly when the provider is azure
\* without a deployment or is not one of the four names; in every other
\* case it constructs exactly one adapter, of the provider's class, and
\* returns it.
C25_ConfigFaultExactly ==
    Created =>
        IF ConfigFault
        THEN /\ Out.raised
             /\ Out.exc.class = "ValueError"
             /\ c_clients = <<>>
        ELSE /\ ~Out.raised
             /\ Len(c_clients) = 1
             /\ c_clients[1].class = AdapterClass[c_in.provider]
             /\ Out.result = Some(c_clients[1])

\* C28: a request that fails without an HTTP response (connection failure,
\* timeout; also a stream that breaks while it is read) gives an error with
\* no status code, the error_type and suggestion of the no-status case, in
\* the error details of run_completions and run_chat_completions and in
\* the APIError the streaming functions raise.
NoResponseFault ==
    /\ c_pc = "done"
    /\ c_in.fn \in PayloadCalls
    /\ c_post # None
    /\ \/ Post.raised /\ Post.response = None
       \/ Reading /\ c_pos >= 1 /\ Lines[c_pos] = FaultLine

C28_NoResponseIsNoStatus ==
    NoResponseFault =>
        /\ c_in.fn \in ResultCalls =>
             /\ ~Out.raised
             /\ Out.result = None
             /\ c_in.return_error =>
                  /\ Out.error # None
                  /\ Value(Out.error).status_code = None
                  /\ Value(Out.error).error_type = "Unknown error"
                  /\ Value(Out.error).suggestion =
                       "Check your network connection and API endpoint URL"
        /\ c_in.fn \in StreamCalls =>
             /\ Out.raised
             /\ Out.exc.class = "APIError"
             /\ Out.exc.status_code = None
             /\ Out.exc.error_type = "Unknown error"
             /\ Out.exc.suggestion = "Check your network connection and API endpoint URL"
             /\ ~StatusSegment(Out.exc.str)

C28_Witness ==
    /\ NoResponseFault
    /\ c_in.fn = "generate_chat_response_streaming"
    /\ Post.raised
    /\ Post.str = "ReadTimeout"
    /\ Out.exc.message = "ReadTimeout"

====
